---- MODULE Spec2Model ----
(***************************************************************************)
(* Advanced-stat core of MiLB-Tracker (scripts/calculate_advanced_stats.py):*)
(* the batted-ball / pull classifiers, the PlayerAdvancedStats accumulator, *)
(* the rate calculator get_stats, the aggregation over games and the merge  *)
(* of the computed stats into a persisted player record.                    *)
(*                                                                          *)
(* Encoding of Python values:                                               *)
(*   - None is the string Null, a missing dict key the string Absent;      *)
(*     an optional number is a sequence of length 0 (None / missing) or 1; *)
(*   - a dict is a function whose DOMAIN is the set of its keys;            *)
(*   - a rate rounded to 3 decimals is the integer number of thousandths    *)
(*     (0.667 is 667); the BIP count is a plain integer.                    *)
(***************************************************************************)
EXTENDS Integers, Sequences, FiniteSets, TLC

VARIABLES
    acc,            \* Spec: the root PlayerAdvancedStats being fed
    unsplit,        \* Spec: counters of the at-bats fed with an opponent hand other than L / R
    fed,            \* Spec: number of add_at_bat calls made on acc
    out,            \* Spec: the last get_stats / get_split_stats call and its result
    last,           \* SpecOne: the add_at_bat call made, its arguments and acc before it
    games,          \* SpecAgg: the list of game records being aggregated
    pc,             \* SpecAgg: "start", "stats" (process_games_for_stats returned), "done"
    agg,            \* SpecAgg: what process_games_for_stats returned
    per_game,       \* SpecAgg: what process_games_per_game returned
    player_data,    \* SpecUpd: one player's persisted record
    upd,            \* SpecUpd: the last update_player_advanced_stats call and the record before it
    updates,        \* SpecUpd: number of updates made
    players,        \* SpecInj: the persisted records of the month, by player id
    inj             \* SpecInj: the players before inject_per_game_stats and what it returned

accVars == <<acc, unsplit, fed, out, last>>
accVars_but_out == <<acc, unsplit, fed, last>>
aggVars == <<games, pc, agg, per_game>>
updVars == <<player_data, upd, updates, players, inj>>
vars == <<acc, unsplit, fed, out, last, games, pc, agg, per_game, player_data, upd, updates, players, inj>>

(***************************************************************************)
(* Python values                                                            *)
(***************************************************************************)
Null == "<null>"
Absent == "<absent>"

\* value is None, for a value of any type
IsNone(value) == ToString(value) = ToString(Null)

\* Python truthiness of an optional string
Truthy(s) == s # Null /\ s # Absent /\ s # ""

\* dict.get(key, default) on a field that may be missing
Get(v, default) == IF v = Absent THEN default ELSE v

EmptyDict == [k \in {} |-> 0]

\* d[k] = v
DictSet(d, k, v) == [x \in DOMAIN d \cup {k} |-> IF x = k THEN v ELSE d[x]]

\* d.pop(k, None) for every k of ks
DictPopAll(d, ks) == [x \in DOMAIN d \ ks |-> d[x]]

\* an assignment "name = value" followed by the statements that use the name:
\* the value is computed once
Assigned(value, Rest(_)) == CHOOSE result \in { Rest(name) : name \in {value} } : TRUE

(***************************************************************************)
(* Module constants                                                         *)
(***************************************************************************)
\* a swing set without the swinging pitchout
SWING_CODES_WITHOUT_Q == {"S", "F", "T", "L", "M", "W", "X", "D", "E", "O", "R"}

SWING_CODES == {"S", "F", "T", "L", "M", "W", "X", "D", "E", "O", "Q", "R"}
\* a contact set that takes a called strike for a contact
CONTACT_CODES_WITH_C == {"C", "F", "T", "L", "X", "D", "E", "O", "R"}

CONTACT_CODES == {"F", "T", "L", "X", "D", "E", "O", "R"}
CSW_CODES == {"C", "S", "M", "W", "Q"}
\* an alphabet that takes the code Z for a pitch
PITCH_CODES_WITH_Z == {"B", "C", "S", "F", "T", "L", "M", "W", "I", "P", "V", "X", "D", "E",
                       "H", "O", "Q", "R", "Z"}

PITCH_CODES == {"B", "C", "S", "F", "T", "L", "M", "W", "I", "P", "V", "X", "D", "E", "H", "O", "Q", "R"}

TRAJECTORY_GB == {"ground_ball"}
TRAJECTORY_FB == {"fly_ball", "popup"}
TRAJECTORY_LD == {"line_drive"}

STRIKEOUT_EVENTS == {"strikeout", "strikeout_double_play"}
WALK_EVENTS == {"walk", "intent_walk", "hit_by_pitch"}
HIT_EVENTS == {"single", "double", "triple", "home_run"}

GROUNDBALL_RESULTS == {"Groundout", "Bunt Groundout", "Grounded Into DP", "Forceout",
                       "Fielders Choice", "Fielders Choice Out", "Double Play"}
FLYBALL_RESULTS == {"Flyout", "Pop Out", "Sac Fly"}
LINEDRIVE_RESULTS == {"Lineout"}

PULL_CENTER_LEFT == 100
PULL_CENTER_RIGHT == 150

(***************************************************************************)
(* str.lower() and the substring test, on the strings the model uses.       *)
(* TLC strings are atomic, so both are tables over the catalogue.           *)
(***************************************************************************)
lower(s) ==
    CASE s = "Ground_Ball" -> "ground_ball"
      [] s = "Line_Drive" -> "line_drive"
      [] s = "Fly_Ball" -> "fly_ball"
      [] s = "Popup" -> "popup"
      [] s = "Singles on a Ground Ball to left." -> "singles on a ground ball to left."
      [] s = "Doubles on a LINE DRIVE to center." -> "doubles on a line drive to center."
      [] OTHER -> s

\* sub in s, for the lower-cased descriptions of the catalogue
contains(s, sub) ==
    CASE sub = "ground ball" -> s \in {"singles on a ground ball to left."}
      [] sub = "line drive" -> s \in {"doubles on a line drive to center.",
                                      "singles on a line drive to right."}
      [] sub = "fly ball" -> s \in {"triples on a fly ball to right.",
                                    "homers on a fly ball to left."}
      [] sub = "pop up" -> s \in {"singles on a pop up to short."}
      [] OTHER -> FALSE

(***************************************************************************)
(* Event classifiers                                                        *)
(***************************************************************************)
classify_batted_ball_from_trajectory(trajectory) ==
    IF ~Truthy(trajectory) THEN Null
    ELSE LET t == lower(trajectory) IN
         IF t \in TRAJECTORY_GB THEN "GB"
         ELSE IF t \in TRAJECTORY_FB THEN "FB"
         ELSE IF t \in TRAJECTORY_LD THEN "LD"
         ELSE Null

\* a fallback that reads the result label and the event type only
classify_from_labels_only(result, event_type, description) ==
    IF ~Truthy(result) THEN Null
    ELSE IF result \in GROUNDBALL_RESULTS THEN "GB"
    ELSE IF result \in FLYBALL_RESULTS THEN "FB"
    ELSE IF result \in LINEDRIVE_RESULTS THEN "LD"
    ELSE IF event_type = "home_run" THEN "FB"
    ELSE Null

classify_batted_ball_from_result(result, event_type, description) ==
    IF ~Truthy(result) THEN Null
    ELSE IF result \in GROUNDBALL_RESULTS THEN "GB"
    ELSE IF result \in FLYBALL_RESULTS THEN "FB"
    ELSE IF result \in LINEDRIVE_RESULTS THEN "LD"
    ELSE IF event_type = "home_run" THEN "FB"
    ELSE IF event_type \in HIT_EVENTS /\ Truthy(description) THEN
         LET desc_lower == lower(description) IN
         IF contains(desc_lower, "ground ball") THEN "GB"
         ELSE IF contains(desc_lower, "line drive") THEN "LD"
         ELSE IF contains(desc_lower, "fly ball") \/ contains(desc_lower, "pop up") THEN "FB"
         ELSE Null
    ELSE Null

\* a center band that leaves its two thresholds out
determine_pull_open_band(coord_x, batter_hand) ==
    IF coord_x = <<>> \/ ~Truthy(batter_hand) \/ batter_hand = "S" THEN Null
    ELSE IF PULL_CENTER_LEFT < coord_x[1] /\ coord_x[1] < PULL_CENTER_RIGHT THEN Null
    ELSE IF batter_hand = "R" THEN (IF coord_x[1] > PULL_CENTER_RIGHT THEN "pull" ELSE "oppo")
    ELSE IF batter_hand = "L" THEN (IF coord_x[1] < PULL_CENTER_LEFT THEN "pull" ELSE "oppo")
    ELSE Null

\* Optional[bool] as "pull" (True), "oppo" (False), Null (None)
determine_pull_from_coordinates(coord_x, batter_hand) ==
    IF coord_x = <<>> \/ ~Truthy(batter_hand) \/ batter_hand = "S" THEN Null
    ELSE IF PULL_CENTER_LEFT <= coord_x[1] /\ coord_x[1] <= PULL_CENTER_RIGHT THEN Null
    ELSE IF batter_hand = "R" THEN (IF coord_x[1] > PULL_CENTER_RIGHT THEN "pull" ELSE "oppo")
    ELSE IF batter_hand = "L" THEN (IF coord_x[1] < PULL_CENTER_LEFT THEN "pull" ELSE "oppo")
    ELSE Null

\* a test that takes a walk for a ball in play
is_ball_in_play_with_walks(event_type) ==
    IF ~Truthy(event_type) THEN FALSE
    ELSE event_type \notin STRIKEOUT_EVENTS

is_ball_in_play(event_type) ==
    IF ~Truthy(event_type) THEN FALSE
    ELSE event_type \notin STRIKEOUT_EVENTS /\ event_type \notin WALK_EVENTS

(***************************************************************************)
(* PlayerAdvancedStats                                                      *)
(***************************************************************************)
Counters == {"ground_balls", "fly_balls", "line_drives", "home_runs",
             "bip_with_direction", "pull_hits", "air_balls_with_direction", "pull_air_balls",
             "total_pitches", "swings", "contacts", "called_strikes_whiffs"}

\* the counters of the pull block
DirectionCounters == {"bip_with_direction", "pull_hits", "air_balls_with_direction",
                      "pull_air_balls"}

\* a split that holds a split of its own
split_of_split_nested ==
    << [c \in Counters |-> 0] @@ "has_pitch_data" :> FALSE
          @@ "vs_left" :> <<>> @@ "vs_right" :> <<>> >>

\* vs_left and vs_right of a split accumulator: None (lines 239-240)
split_of_split == <<>>

\* _init_split: a split accumulator, which holds no splits of its own
init_split ==
    [ground_balls |-> 0, fly_balls |-> 0, line_drives |-> 0, home_runs |-> 0,
     bip_with_direction |-> 0, pull_hits |-> 0, air_balls_with_direction |-> 0,
     pull_air_balls |-> 0, total_pitches |-> 0, swings |-> 0, contacts |-> 0,
     called_strikes_whiffs |-> 0, has_pitch_data |-> FALSE,
     vs_left |-> split_of_split, vs_right |-> split_of_split]

\* __init__ of a main object: zero counters and two initialised splits
NewStats == [init_split EXCEPT !.vs_left = <<init_split>>, !.vs_right = <<init_split>>]

\* the accumulator and its two splits
Accumulators(self) == {self, self.vs_left[1], self.vs_right[1]}

\* the for-loop over the pitches: how many codes of the list are in a code set
RECURSIVE CountCodes(_, _)
CountCodes(pitches, codes) ==
    IF pitches = <<>> THEN 0
    ELSE (IF Head(pitches).call \in PITCH_CODES /\ Head(pitches).call \in codes THEN 1 ELSE 0)
         + CountCodes(Tail(pitches), codes)

\* a flag that follows the last at-bat instead of latching
has_pitch_data_last(self, pitches) == pitches # <<>>

\* has_pitch_data after an at-bat: set by a pitch list, never cleared (lines 294-295)
has_pitch_data_after(self, pitches) == IF pitches # <<>> THEN TRUE ELSE self.has_pitch_data

\* a home-run count that does not ask for the fly-ball class
counts_home_run_any(bb_type, event_type) == event_type = "home_run"

\* home_runs is incremented inside the FB branch only (lines 266-269)
counts_home_run(bb_type, event_type) == bb_type = "FB" /\ event_type = "home_run"

\* an air-ball test every batted ball passes
is_air_ball_any(bb_type, trajectory) == TRUE

\* is_air of the Pull-Air% block (lines 282-285)
is_air_ball(bb_type, trajectory) ==
    \/ bb_type \in {"FB", "LD"}
    \/ Truthy(trajectory) /\ lower(trajectory) \in {"fly_ball", "line_drive", "popup"}

\* add_at_bat raises TypeError: with no pitch list, a pitchCount that is present
\* and null is compared with 0 (lines 308-309)
add_at_bat_raises(at_bat) == at_bat.pitches = <<>> /\ "pitchCount" \in at_bat.nulls

\* the statements of add_at_bat before the split forwarding (lines 244-310); when
\* add_at_bat raises, the state the accumulator is left in
AddOwn(self, at_bat, batter_hand) ==
    LET event_type == Get(at_bat.eventType, "")
        result == Get(at_bat.result, "")
        description == Get(at_bat.description, "")
        pitches == at_bat.pitches
        last_pitch == pitches[Len(pitches)]
        trajectory == IF pitches # <<>> THEN last_pitch.trajectory ELSE Null
        coord_x == IF pitches # <<>> THEN last_pitch.coordX ELSE <<>>
        bb_traj == IF pitches # <<>> THEN classify_batted_ball_from_trajectory(trajectory) ELSE Null
        bb_type == IF bb_traj = Null
                   THEN classify_batted_ball_from_result(result, event_type, description)
                   ELSE bb_traj
        pull_on == is_ball_in_play(event_type) /\ Truthy(batter_hand) /\ batter_hand # "S"
        is_pull == IF pull_on THEN determine_pull_from_coordinates(coord_x, batter_hand) ELSE Null
        is_air == is_air_ball(bb_type, trajectory)
        pitch_count == IF at_bat.pitchCount = <<>> \/ "pitchCount" \in at_bat.nulls
                       THEN 0 ELSE at_bat.pitchCount[1]
    IN [self EXCEPT
          !.ground_balls = @ + (IF bb_type = "GB" THEN 1 ELSE 0),
          !.fly_balls = @ + (IF bb_type = "FB" THEN 1 ELSE 0),
          !.home_runs = @ + (IF counts_home_run(bb_type, event_type) THEN 1 ELSE 0),
          !.line_drives = @ + (IF bb_type = "LD" THEN 1 ELSE 0),
          !.bip_with_direction = @ + (IF is_pull # Null THEN 1 ELSE 0),
          !.pull_hits = @ + (IF is_pull = "pull" THEN 1 ELSE 0),
          !.air_balls_with_direction = @ + (IF is_pull # Null /\ is_air THEN 1 ELSE 0),
          !.pull_air_balls = @ + (IF is_pull = "pull" /\ is_air THEN 1 ELSE 0),
          !.has_pitch_data = has_pitch_data_after(self, pitches),
          !.total_pitches = @ + (IF pitches # <<>> THEN CountCodes(pitches, PITCH_CODES)
                                 ELSE IF pitch_count > 0 THEN pitch_count ELSE 0),
          !.swings = @ + (IF pitches # <<>> THEN CountCodes(pitches, SWING_CODES) ELSE 0),
          !.contacts = @ + (IF pitches # <<>> THEN CountCodes(pitches, CONTACT_CODES) ELSE 0),
          !.called_strikes_whiffs = @ + (IF pitches # <<>> THEN CountCodes(pitches, CSW_CODES) ELSE 0)]

\* a forwarding whose second branch takes every hand that is not L
SplitForElse(self, opponent_hand) ==
    IF opponent_hand = "L" /\ self.vs_left # <<>> THEN "vs_left"
    ELSE IF self.vs_right # <<>> THEN "vs_right"
    ELSE "none"

\* the split a call with this opponent hand is forwarded to (lines 312-316)
SplitFor(self, opponent_hand) ==
    IF opponent_hand = "L" /\ self.vs_left # <<>> THEN "vs_left"
    ELSE IF opponent_hand = "R" /\ self.vs_right # <<>> THEN "vs_right"
    ELSE "none"

\* add_at_bat(self, at_bat, opponent_hand, batter_hand): the accumulator after
\* the call. When the call raises (add_at_bat_raises) the counters before line
\* 309 are updated and the forwarding to the splits (lines 312-316) is not
\* reached.
RECURSIVE add_at_bat(_, _, _, _)
add_at_bat(self, at_bat, opponent_hand, batter_hand) ==
    LET own == AddOwn(self, at_bat, batter_hand)
        to == SplitFor(self, opponent_hand)
    IN IF add_at_bat_raises(at_bat) THEN own
       ELSE IF to = "vs_left"
       THEN [own EXCEPT !.vs_left = <<add_at_bat(self.vs_left[1], at_bat, Null, batter_hand)>>]
       ELSE IF to = "vs_right"
       THEN [own EXCEPT !.vs_right = <<add_at_bat(self.vs_right[1], at_bat, Null, batter_hand)>>]
       ELSE own

\* the number of nested add_at_bat calls one call makes (lines 312-316)
RECURSIVE forwarding_depth(_, _)
forwarding_depth(self, opponent_hand) ==
    LET to == SplitFor(self, opponent_hand)
    IN IF to = "none" THEN 0
       ELSE 1 + forwarding_depth(self[to][1], Null)

(***************************************************************************)
(* Rate calculator                                                          *)
(***************************************************************************)
\* a rounding that always goes up
round3_up(num, den) == (1000 * num + den - 1) \div den

\* n * 2^e for the least e >= 0 that makes it at least the floor
RECURSIVE scaled_up(_, _)
scaled_up(n, floor) == IF n >= floor THEN n ELSE scaled_up(2 * n, floor)

\* the sign of fl(num / den) - num / den for num > 0, where fl is the division
\* of two doubles (IEEE 754: 53 mantissa bits, round to nearest, ties to even).
\* The fraction is scaled by a power of two to n / d in [1, 2): its leading bit
\* is the 1, the 52 bits after it are developed 13 at a time, rest / d is what
\* is left of the fraction after them and low is the last of them.
double_error(num, den) ==
    LET n == scaled_up(num, den)
        d == scaled_up(den, n \div 2 + 1)
        r1 == ((n - d) * 2^13) % d
        r2 == (r1 * 2^13) % d
        r3 == (r2 * 2^13) % d
        rest == (r3 * 2^13) % d
        low == ((r3 * 2^13) \div d) % 2
    IN IF rest = 0 THEN 0
       ELSE IF 2 * rest < d THEN -1
       ELSE IF 2 * rest > d THEN 1
       ELSE IF low = 0 THEN -1 ELSE 1

\* round(num / den, 3) in thousandths. Python rounds the double num / den, by
\* its exact binary value, to the nearest multiple of 0.001. When the fraction
\* is half-way between two multiples the double decides: it is exact only if
\* the fraction is dyadic, and the tie then goes to the even multiple;
\* otherwise the double lies above or below the fraction and the result
\* follows it (round(1 / 80, 3) = 0.013, round(3 / 80, 3) = 0.037).
round3(num, den) ==
    LET q == (1000 * num) \div den
        r == (1000 * num) % den
        error == double_error(num, den)
    IN IF 2 * r < den THEN q
       ELSE IF 2 * r > den THEN q + 1
       ELSE IF error < 0 THEN q
       ELSE IF error > 0 THEN q + 1
       ELSE IF q % 2 = 0 THEN q ELSE q + 1

\* a count that leaves the line drives out
classifiable_bip_no_ld(self) == self.ground_balls + self.fly_balls

classifiable_bip(self) == self.ground_balls + self.fly_balls + self.line_drives

\* a gate that wants more than the minimum
bip_gate_strict(bip, min_bip) == bip > min_bip

\* the gate of the batted-ball rates (line 334)
bip_gate(bip, min_bip) == bip >= min_bip

\* a gate that asks for the pitch count only
discipline_gate_pitches_only(self, min_pitches) == self.total_pitches >= min_pitches

\* the gate of the plate-discipline rates (line 352)
discipline_gate(self, min_pitches) ==
    self.has_pitch_data /\ self.total_pitches >= min_pitches

\* get_stats raises ZeroDivisionError: a gate is passed with a zero denominator
get_stats_raises(self, is_batter, min_bip, min_pitches, min_direction) ==
    \/ bip_gate(classifiable_bip(self), min_bip) /\ classifiable_bip(self) = 0
    \/ is_batter /\ self.bip_with_direction >= min_direction /\ self.bip_with_direction = 0
    \/ is_batter /\ self.air_balls_with_direction >= min_direction
                 /\ self.air_balls_with_direction = 0
    \/ discipline_gate(self, min_pitches) /\ self.total_pitches = 0

\* get_stats(self, is_batter, min_bip, min_pitches, min_direction), when it returns
get_stats(self, is_batter, min_bip, min_pitches, min_direction) ==
    LET bip == classifiable_bip(self)
        bb == bip_gate(bip, min_bip)
        disc == discipline_gate(self, min_pitches)
        keys == {"BIP"}
                \cup (IF bb THEN {"GB%", "FB%", "LD%"} ELSE {})
                \cup (IF bb /\ self.fly_balls > 0 THEN {"HR/FB"} ELSE {})
                \cup (IF is_batter /\ self.bip_with_direction >= min_direction
                      THEN {"Pull%"} ELSE {})
                \cup (IF is_batter /\ self.air_balls_with_direction >= min_direction
                      THEN {"Pull-Air%"} ELSE {})
                \cup (IF disc THEN {"Swing%", "CSW%"} ELSE {})
                \cup (IF disc /\ self.swings > 0 THEN {"Contact%"} ELSE {})
        value(k) ==
            CASE k = "BIP" -> bip
              [] k = "GB%" -> round3(self.ground_balls, bip)
              [] k = "FB%" -> round3(self.fly_balls, bip)
              [] k = "LD%" -> round3(self.line_drives, bip)
              [] k = "HR/FB" -> round3(self.home_runs, self.fly_balls)
              [] k = "Pull%" -> round3(self.pull_hits, self.bip_with_direction)
              [] k = "Pull-Air%" -> round3(self.pull_air_balls, self.air_balls_with_direction)
              [] k = "Swing%" -> round3(self.swings, self.total_pitches)
              [] k = "Contact%" -> round3(self.contacts, self.swings)
              [] k = "CSW%" -> round3(self.called_strikes_whiffs, self.total_pitches)
    IN [k \in keys |-> value(k)]

\* the defaults of get_stats' keyword arguments
DEFAULT_MIN_BIP == 10
DEFAULT_MIN_PITCHES == 50
DEFAULT_MIN_DIRECTION == 10

\* get_split_stats(self, is_batter), which calls get_stats with the default minima
get_split_stats_with(self, is_batter, min_bip, min_pitches, min_direction) ==
    LET vs_l == IF self.vs_left # <<>>
                THEN get_stats(self.vs_left[1], is_batter, min_bip, min_pitches, min_direction)
                ELSE EmptyDict
        vs_r == IF self.vs_right # <<>>
                THEN get_stats(self.vs_right[1], is_batter, min_bip, min_pitches, min_direction)
                ELSE EmptyDict
        keys == (IF DOMAIN vs_l # {} THEN {"vsL"} ELSE {})
                \cup (IF DOMAIN vs_r # {} THEN {"vsR"} ELSE {})
    IN [k \in keys |-> IF k = "vsL" THEN vs_l ELSE vs_r]

get_split_stats(self, is_batter) ==
    get_split_stats_with(self, is_batter, DEFAULT_MIN_BIP, DEFAULT_MIN_PITCHES,
                         DEFAULT_MIN_DIRECTION)

(***************************************************************************)
(* Inputs: pitches and at-bats                                              *)
(***************************************************************************)
Pitch(call, trajectory, coordX) == [call |-> call, trajectory |-> trajectory, coordX |-> coordX]

\* a pitch that carries only its call code
Call(code) == Pitch(code, Absent, <<>>)

\* an at-bat dict. pitches is the list (empty when the key is missing, null or
\* empty, which the code does not tell apart); pitchCount, balls and strikes are
\* optional numbers; nulls holds the numeric keys present with the value null.
AtBat(eventType, result, description, pitches, pitchCount) ==
    [eventType |-> eventType, result |-> result, description |-> description,
     pitches |-> pitches, pitchCount |-> pitchCount,
     balls |-> <<>>, strikes |-> <<>>, nulls |-> {},
     batterId |-> <<>>, pitcherId |-> <<>>, batterHand |-> Null, pitcherHand |-> Null]

\* a pitch-level ground ball with an off-center hit coordinate
GroundOut == AtBat("field_out", "Groundout", Null,
                   <<Call("C"), Pitch("X", "Ground_Ball", <<200>>)>>, <<2>>)

\* a pitch-level home run with an off-center hit coordinate
HomeRun == AtBat("home_run", "Home Run", "homers on a fly ball to left.",
                 <<Pitch("E", "fly_ball", <<60>>)>>, <<1>>)

\* a pitch-level strikeout
StrikeOut == AtBat("strikeout", "Strikeout", Null, <<Call("S"), Call("B"), Call("W")>>, <<3>>)

\* a legacy line-out, which carries only its pitch count
LineOutLegacy == AtBat("field_out", "Lineout", Null, <<>>, <<3>>)

\* a legacy line-out whose pitchCount is null: add_at_bat raises on it
LineOutNullCount == [LineOutLegacy EXCEPT !.pitchCount = <<>>, !.nulls = {"pitchCount"}]

\* the at-bats fed to a single accumulator
Plays == {GroundOut, HomeRun, StrikeOut, LineOutLegacy}

Hands == {"L", "R", "S", Null}

(***************************************************************************)
(* Spec: one accumulator is fed at-bats, then read                          *)
(***************************************************************************)
MaxAtBats == 3

\* minimum-sample arguments a caller passes (positive)
Minima == {1, 2}

NoCall == [op |-> "none", is_batter |-> FALSE, min_bip |-> 0,
           min_pitches |-> 0, min_direction |-> 0, raised |-> FALSE, stats |-> EmptyDict,
           splits |-> EmptyDict]

\* no add_at_bat call recorded
NoAtBat == [op |-> "none", before |-> NewStats, at_bat |-> LineOutLegacy,
            opponent_hand |-> Null, batter_hand |-> Null, raised |-> FALSE]

Init ==
    /\ acc = NewStats
    /\ unsplit = init_split
    /\ fed = 0
    /\ out = NoCall
    /\ last = NoAtBat
    /\ games = <<>>
    /\ pc = "idle"
    /\ agg = <<>>
    /\ per_game = <<>>
    /\ player_data = EmptyDict
    /\ upd = <<>>
    /\ updates = 0
    /\ players = EmptyDict
    /\ inj = <<>>

\* acc.add_at_bat(at_bat, opponent_hand, batter_hand); last records that the
\* call was made and whether it raised
AddAtBat(at_bat, opponent_hand, batter_hand) ==
    /\ fed < MaxAtBats
    /\ out = NoCall
    /\ acc' = add_at_bat(acc, at_bat, opponent_hand, batter_hand)
    /\ unsplit' = IF opponent_hand \in {"L", "R"} THEN unsplit
                  ELSE AddOwn(unsplit, at_bat, batter_hand)
    /\ fed' = fed + 1
    /\ last' = [op |-> "add_at_bat", raised |-> add_at_bat_raises(at_bat)]
    /\ UNCHANGED <<out, aggVars, updVars>>

\* acc.get_stats(is_batter, min_bip, min_pitches, min_direction), once acc is filled
GetStats(is_batter, min_bip, min_pitches, min_direction) ==
    LET raised == get_stats_raises(acc, is_batter, min_bip, min_pitches, min_direction)
    IN /\ out = NoCall
       /\ out' = [op |-> "get_stats", is_batter |-> is_batter,
                  min_bip |-> min_bip, min_pitches |-> min_pitches,
                  min_direction |-> min_direction, raised |-> raised,
                  stats |-> IF raised THEN EmptyDict
                            ELSE get_stats(acc, is_batter, min_bip, min_pitches, min_direction),
                  splits |-> EmptyDict]
       /\ UNCHANGED <<acc, unsplit, fed, last, aggVars, updVars>>

\* acc.get_split_stats(is_batter), once acc is filled
GetSplitStats(is_batter) ==
    /\ out = NoCall
    /\ out' = [op |-> "get_split_stats", is_batter |-> is_batter,
               min_bip |-> DEFAULT_MIN_BIP, min_pitches |-> DEFAULT_MIN_PITCHES,
               min_direction |-> DEFAULT_MIN_DIRECTION, raised |-> FALSE,
               stats |-> EmptyDict, splits |-> get_split_stats(acc, is_batter)]
    /\ UNCHANGED <<acc, unsplit, fed, last, aggVars, updVars>>

Next ==
    \/ \E at_bat \in Plays, opponent_hand \in Hands, batter_hand \in Hands :
          AddAtBat(at_bat, opponent_hand, batter_hand)
    \/ \E is_batter \in BOOLEAN, min_bip \in Minima, min_pitches \in Minima,
          min_direction \in Minima :
          GetStats(is_batter, min_bip, min_pitches, min_direction)
    \/ \E is_batter \in BOOLEAN : GetSplitStats(is_batter)

Spec == Init /\ [][Next]_vars

(***************************************************************************)
(* Properties of Spec: the splits                                           *)
(***************************************************************************)
\* C27: the root accumulator has its two split children, each child's vs_left
\* and vs_right are null, and an add_at_bat call on the root forwards the at-bat
\* at most one level deep, whatever the opponent hand.
SplitsOneLevel ==
    /\ acc.vs_left # <<>> /\ acc.vs_right # <<>>
    /\ Len(acc.vs_left) = 1 /\ Len(acc.vs_right) = 1
    /\ \A child \in {acc.vs_left[1], acc.vs_right[1]} :
          /\ child.vs_left = <<>> /\ child.vs_right = <<>>
          /\ \A opponent_hand \in Hands : forwarding_depth(child, opponent_hand) = 0
    /\ \A opponent_hand \in Hands : forwarding_depth(acc, opponent_hand) <= 1

\* C27 witness: at-bats were forwarded to both children, one call deep, and the
\* children still hold no splits
SplitsOneLevelWitness ==
    /\ fed = MaxAtBats
    /\ acc.vs_left[1].ground_balls >= 1 /\ acc.vs_right[1].fly_balls >= 1
    /\ acc.ground_balls + acc.fly_balls + acc.line_drives = MaxAtBats
    /\ forwarding_depth(acc, "L") = 1 /\ forwarding_depth(acc, "R") = 1
    /\ forwarding_depth(acc, Null) = 0
    /\ acc.vs_left[1].vs_left = <<>> /\ acc.vs_right[1].vs_right = <<>>

\* the order relations between the counters of one accumulator
CountersOrdered(a) ==
    /\ a.contacts <= a.swings /\ a.swings <= a.total_pitches
    /\ a.called_strikes_whiffs + a.contacts <= a.total_pitches
    /\ a.pull_hits <= a.bip_with_direction
    /\ a.pull_air_balls <= a.air_balls_with_direction
    /\ a.air_balls_with_direction <= a.bip_with_direction
    /\ a.pull_air_balls <= a.pull_hits

\* every rate of a RateStats dict lies between 0 and 1 (in thousandths)
RatesInUnit(stats) == \A k \in DOMAIN stats \ {"BIP"} : 0 <= stats[k] /\ stats[k] <= 1000

\* C28: in the root and in both splits, after any sequence of add_at_bat calls,
\* contacts <= swings <= total_pitches, called_strikes_whiffs + contacts <=
\* total_pitches, pull_hits <= bip_with_direction, pull_air_balls <=
\* air_balls_with_direction <= bip_with_direction and pull_air_balls <=
\* pull_hits; every rate get_stats emits lies between 0 and 1.
CountersOrderedRatesInUnit ==
    /\ \A a \in Accumulators(acc) :
          /\ CountersOrdered(a)
          /\ \A is_batter \in BOOLEAN, m \in Minima :
                RatesInUnit(get_stats(a, is_batter, m, m, m))
    /\ out.op = "get_stats" => RatesInUnit(out.stats)

\* C28 witness: every relation is strict in the root, and get_stats emitted a
\* Pull%, a Contact% and a CSW% strictly between 0 and 1
CountersOrderedWitness ==
    /\ acc.contacts < acc.swings /\ acc.swings < acc.total_pitches
    /\ acc.called_strikes_whiffs + acc.contacts < acc.total_pitches
    /\ acc.pull_air_balls < acc.pull_hits /\ acc.pull_hits < acc.bip_with_direction
    /\ acc.pull_air_balls < acc.air_balls_with_direction
    /\ acc.air_balls_with_direction < acc.bip_with_direction
    /\ out.op = "get_stats"
    /\ {"Pull%", "Pull-Air%", "Contact%", "CSW%"} \subseteq DOMAIN out.stats
    /\ \A k \in {"Pull%", "Contact%", "CSW%"} : 0 < out.stats[k] /\ out.stats[k] < 1000

(***************************************************************************)
(* SpecRates: an accumulator holding given batted-ball counts is read       *)
(***************************************************************************)
MaxCount == 12

\* minimum-BIP arguments: the per-game minimum and the default
RateMinima == {1, DEFAULT_MIN_BIP}

\* an accumulator after ground_balls + fly_balls + line_drives legacy at-bats
\* with no opponent hand, home_runs of the fly balls being home runs
Filled(ground_balls, fly_balls, line_drives, home_runs) ==
    [NewStats EXCEPT !.ground_balls = ground_balls, !.fly_balls = fly_balls,
                     !.line_drives = line_drives, !.home_runs = home_runs]

\* counts of a full month: with a few more balls in play they give 80
\* classifiable BIP, where 1 / 80, 3 / 80 and 7 / 80 lie half-way between two
\* thousandths and the double decides the rounding
SeasonCounts == {73, 77, 79}

RateCounts == (0..MaxCount) \cup SeasonCounts

InitRates ==
    /\ \E ground_balls \in RateCounts, fly_balls \in RateCounts,
          line_drives \in RateCounts :
          \E home_runs \in {0, fly_balls} :
             /\ acc = Filled(ground_balls, fly_balls, line_drives, home_runs)
             /\ unsplit = [init_split EXCEPT !.ground_balls = ground_balls,
                                             !.fly_balls = fly_balls,
                                             !.line_drives = line_drives,
                                             !.home_runs = home_runs]
             /\ fed = ground_balls + fly_balls + line_drives
    /\ out = NoCall
    /\ last = NoAtBat
    /\ games = <<>>
    /\ pc = "idle"
    /\ agg = <<>>
    /\ per_game = <<>>
    /\ player_data = EmptyDict
    /\ upd = <<>>
    /\ updates = 0
    /\ players = EmptyDict
    /\ inj = <<>>

NextRates ==
    \E is_batter \in BOOLEAN, min_bip \in RateMinima :
        GetStats(is_batter, min_bip, DEFAULT_MIN_PITCHES, DEFAULT_MIN_DIRECTION)

SpecRates == InitRates /\ [][NextRates]_vars

(***************************************************************************)
(* Properties of Spec                                                       *)
(***************************************************************************)
\* C8: each raw counter of the root is the sum of that counter in vs_left, in
\* vs_right and over the at-bats fed with an opponent hand other than L or R.
SplitAdditivity ==
    \A c \in Counters : acc[c] = acc.vs_left[1][c] + acc.vs_right[1][c] + unsplit[c]

\* C8 witness: at-bats were fed with hand L, with hand R and with another hand
SplitAdditivityWitness ==
    /\ acc.vs_left[1].total_pitches > 0
    /\ acc.vs_right[1].total_pitches > 0
    /\ unsplit.total_pitches > 0

BattedBallKeys == {"GB%", "FB%", "LD%"}

\* C9: get_stats emits GB%, FB% and LD% exactly when the classifiable-BIP count
\* is at least min_bip: all three at or above it, none of them below it.
GatingBIP ==
    (out.op = "get_stats" /\ ~out.raised) =>
        IF classifiable_bip(acc) >= out.min_bip
        THEN BattedBallKeys \subseteq DOMAIN out.stats
        ELSE BattedBallKeys \cap DOMAIN out.stats = {}

\* C9 witness: get_stats was called with exactly min_bip classifiable BIP
GatingBIPWitness ==
    /\ out.op = "get_stats"
    /\ out.min_bip = DEFAULT_MIN_BIP
    /\ classifiable_bip(acc) = out.min_bip
    /\ BattedBallKeys \subseteq DOMAIN out.stats

\* C10: whenever get_stats emits GB%, FB% and LD%, the three rounded values sum
\* to 1.0 within 0.0015, that is to 999, 1000 or 1001 thousandths.
BattedBallRatesSum ==
    (out.op = "get_stats" /\ BattedBallKeys \subseteq DOMAIN out.stats) =>
        out.stats["GB%"] + out.stats["FB%"] + out.stats["LD%"] \in 999..1001

\* C10 witness: at the default minimum and 80 classifiable BIP, one ground
\* ball gives the half-way rate 0.0125, which the double rounds up to 0.013,
\* and the three rates sum to 1.001
BattedBallRatesSumWitness ==
    /\ out.op = "get_stats"
    /\ out.min_bip = DEFAULT_MIN_BIP
    /\ BattedBallKeys \subseteq DOMAIN out.stats
    /\ classifiable_bip(acc) = 80
    /\ acc.ground_balls = 1
    /\ out.stats["GB%"] = 13
    /\ out.stats["GB%"] + out.stats["FB%"] + out.stats["LD%"] = 1001

(***************************************************************************)
(* Aggregation pipeline                                                     *)
(***************************************************************************)
\* truthiness of an optional id ("if batter_id:", "if not game_pk:")
IsSet(id) == id # <<>> /\ id[1] # 0

\* dict.get(key) on a field that may be missing
GetNone(v) == IF v = Absent THEN Null ELSE v

\* a lookup that starts a new accumulator every time
TouchNew(d, k) == NewStats

\* defaultdict(PlayerAdvancedStats)[k]
Touch(d, k) == IF k \in DOMAIN d THEN d[k] ELSE NewStats

\* defaultdict(lambda: defaultdict(PlayerAdvancedStats))[k]
TouchDict(d, k) == IF k \in DOMAIN d THEN d[k] ELSE EmptyDict

\* d[k].add_at_bat(at_bat, opponent_hand, batter_hand) on a defaultdict: d after
\* the call; when add_at_bat raises, d[k] exists and holds what add_at_bat left
Feed(d, k, at_bat, opponent_hand, batter_hand) ==
    DictSet(d, k, add_at_bat(Touch(d, k), at_bat, opponent_hand, batter_hand))

\* d[k1][k2].add_at_bat(at_bat, opponent_hand, batter_hand) on a nested defaultdict
Feed2(d, k1, k2, at_bat, opponent_hand, batter_hand) ==
    DictSet(d, k1, Feed(TouchDict(d, k1), k2, at_bat, opponent_hand, batter_hand))

EmptyAgg == [batter_stats |-> EmptyDict, pitcher_stats |-> EmptyDict,
             batter_stats_by_level |-> EmptyDict, pitcher_stats_by_level |-> EmptyDict]

EmptyPerGame == [batter_per_game |-> EmptyDict, pitcher_per_game |-> EmptyDict]

\* the batter's key where the pitcher's belongs
pitcher_level_key_batter(bid, pid) == bid

\* the key of the by-level update of a pitcher (line 439)
pitcher_level_key(bid, pid) == pid

\* a pitcher's call that passes the batter's hand on
pitcher_batter_hand_kept(batter_hand) == batter_hand

\* the batter_hand argument of a pitcher's add_at_bat call: None (lines 438-439, 473)
pitcher_batter_hand(batter_hand) == Null

\* the body of the loop of process_games_for_stats raises on this at-bat: its
\* first add_at_bat call (line 433, or 438 with no batter id) does
stats_at_bat_raises(at_bat) ==
    (IsSet(at_bat.batterId) \/ IsSet(at_bat.pitcherId)) /\ add_at_bat_raises(at_bat)

\* process_games_for_stats: the body of the loop over a game's at-bats (lines
\* 426-439); when it raises, the dicts as the first add_at_bat call leaves them
stats_at_bat(st, level, at_bat) ==
    LET batter_id == at_bat.batterId
        pitcher_id == at_bat.pitcherId
        batter_hand == GetNone(at_bat.batterHand)
        pitcher_hand == GetNone(at_bat.pitcherHand)
        bid == IF batter_id = <<>> THEN Null ELSE ToString(batter_id[1])
        pid == IF pitcher_id = <<>> THEN Null ELSE ToString(pitcher_id[1])
        b == IF IsSet(batter_id)
             THEN [st EXCEPT
                     !.batter_stats = Feed(@, bid, at_bat, pitcher_hand, batter_hand),
                     !.batter_stats_by_level =
                         Feed2(@, bid, level, at_bat, pitcher_hand, batter_hand)]
             ELSE st
    IN IF stats_at_bat_raises(at_bat)
       THEN IF IsSet(batter_id)
            THEN [st EXCEPT !.batter_stats = Feed(@, bid, at_bat, pitcher_hand, batter_hand)]
            ELSE [st EXCEPT !.pitcher_stats = Feed(@, pid, at_bat, batter_hand,
                                                   pitcher_batter_hand(batter_hand))]
       ELSE IF IsSet(pitcher_id)
       THEN [b EXCEPT
               !.pitcher_stats = Feed(@, pid, at_bat, batter_hand,
                                       pitcher_batter_hand(batter_hand)),
               !.pitcher_stats_by_level =
                   Feed2(@, pitcher_level_key(bid, pid), level, at_bat, batter_hand,
                         pitcher_batter_hand(batter_hand))]
       ELSE b

\* the loop over a game's at-bats, which an exception leaves
RECURSIVE stats_at_bats(_, _, _)
stats_at_bats(st, level, at_bats) ==
    IF at_bats = <<>> THEN st
    ELSE IF stats_at_bat_raises(Head(at_bats)) THEN stats_at_bat(st, level, Head(at_bats))
    ELSE stats_at_bats(stats_at_bat(st, level, Head(at_bats)), level, Tail(at_bats))

\* process_games_for_stats(games) raises TypeError: add_at_bat does on one of
\* the at-bats, and nothing catches it
process_games_for_stats_raises(gs) ==
    \E g \in DOMAIN gs : \E i \in DOMAIN gs[g].atBats : stats_at_bat_raises(gs[g].atBats[i])

\* process_games_for_stats: the loop over the games (lines 423-425), which an
\* exception leaves
RECURSIVE stats_games(_, _)
stats_games(st, gs) ==
    IF gs = <<>> THEN st
    ELSE IF process_games_for_stats_raises(<<Head(gs)>>)
    THEN stats_at_bats(st, Get(Head(gs).level, "MiLB"), Head(gs).atBats)
    ELSE stats_games(stats_at_bats(st, Get(Head(gs).level, "MiLB"), Head(gs).atBats), Tail(gs))

\* process_games_for_stats(games): the four dicts it returns; when it raises
\* (process_games_for_stats_raises) it returns nothing, and these are its
\* dicts as the exception leaves them
process_games_for_stats(gs) == stats_games(EmptyAgg, gs)

\* a pass that wants both ids
counts_batter_with_pitcher(batter_id, pitcher_id) == IsSet(batter_id) /\ IsSet(pitcher_id)

\* whether the per-game pass counts a batter's at-bat (line 467)
counts_batter(batter_id, pitcher_id) == IsSet(batter_id)

\* the body of the loop of process_games_per_game raises on this at-bat: its
\* first add_at_bat call (line 469, or 473 with no batter counted) does
per_game_at_bat_raises(at_bat) ==
    /\ counts_batter(at_bat.batterId, at_bat.pitcherId) \/ IsSet(at_bat.pitcherId)
    /\ add_at_bat_raises(at_bat)

\* process_games_per_game: the body of the loop over a game's at-bats (lines
\* 462-473); when it raises, the first add_at_bat call is the last statement run
per_game_at_bat(st, game_pk, at_bat) ==
    LET batter_id == at_bat.batterId
        pitcher_id == at_bat.pitcherId
        batter_hand == GetNone(at_bat.batterHand)
        pitcher_hand == GetNone(at_bat.pitcherHand)
        b == IF counts_batter(batter_id, pitcher_id)
             THEN [st EXCEPT !.batter_per_game =
                      Feed2(@, ToString(batter_id[1]), game_pk, at_bat, pitcher_hand, batter_hand)]
             ELSE st
    IN IF per_game_at_bat_raises(at_bat) /\ counts_batter(batter_id, pitcher_id) THEN b
       ELSE IF IsSet(pitcher_id)
       THEN [b EXCEPT !.pitcher_per_game =
                Feed2(@, ToString(pitcher_id[1]), game_pk, at_bat, batter_hand,
                      pitcher_batter_hand(batter_hand))]
       ELSE b

\* the loop over a game's at-bats, which an exception leaves
RECURSIVE per_game_at_bats(_, _, _)
per_game_at_bats(st, game_pk, at_bats) ==
    IF at_bats = <<>> THEN st
    ELSE IF per_game_at_bat_raises(Head(at_bats))
    THEN per_game_at_bat(st, game_pk, Head(at_bats))
    ELSE per_game_at_bats(per_game_at_bat(st, game_pk, Head(at_bats)), game_pk, Tail(at_bats))

\* process_games_per_game(games) raises TypeError: add_at_bat does on one of the
\* at-bats of a game with a gamePk, and nothing catches it
process_games_per_game_raises(gs) ==
    \E g \in DOMAIN gs :
        /\ IsSet(gs[g].gamePk)
        /\ \E i \in DOMAIN gs[g].atBats : per_game_at_bat_raises(gs[g].atBats[i])

\* process_games_per_game: the loop over the games, skipping those without
\* gamePk; an exception leaves it
RECURSIVE per_game_games(_, _)
per_game_games(st, gs) ==
    IF gs = <<>> THEN st
    ELSE IF ~IsSet(Head(gs).gamePk) THEN per_game_games(st, Tail(gs))
    ELSE IF process_games_per_game_raises(<<Head(gs)>>)
    THEN per_game_at_bats(st, Head(gs).gamePk[1], Head(gs).atBats)
    ELSE per_game_games(per_game_at_bats(st, Head(gs).gamePk[1], Head(gs).atBats), Tail(gs))

\* process_games_per_game(games): the two dicts it returns; when it raises
\* (process_games_per_game_raises) it returns nothing, and these are its dicts
\* as the exception leaves them
process_games_per_game(gs) == per_game_games(EmptyPerGame, gs)

(***************************************************************************)
(* SpecAgg: a list of games is aggregated as calculate_for_month does       *)
(***************************************************************************)
Matchup(at_bat, batterId, pitcherId, batterHand, pitcherHand) ==
    [at_bat EXCEPT !.batterId = batterId, !.pitcherId = pitcherId,
                   !.batterHand = batterHand, !.pitcherHand = pitcherHand]

\* the at-bat lists of the games: player 1 bats against player 2 with and without
\* pitch-level data, player 2 bats with no pitcher recorded, player 2 pitches to
\* an at-bat with no batter id, player 1 bats in a legacy at-bat whose pitchCount
\* is null
AtBatLists ==
    { << Matchup(GroundOut, <<1>>, <<2>>, "R", "L"),
         Matchup(LineOutLegacy, <<1>>, <<2>>, "R", "R") >>,
      << Matchup(HomeRun, <<2>>, <<>>, "L", Absent),
         Matchup(StrikeOut, <<>>, <<2>>, "S", "R") >>,
      << Matchup(LineOutLegacy, <<1>>, <<1>>, Absent, "L") >>,
      << Matchup(GroundOut, <<1>>, <<2>>, "R", "L"),
         Matchup(LineOutNullCount, <<1>>, <<2>>, "R", "L") >> }

Game(gamePk, level, atBats) == [gamePk |-> gamePk, level |-> level, atBats |-> atBats]

PbpGames == { Game(gamePk, level, atBats) :
                gamePk \in {<<>>, <<101>>, <<102>>}, level \in {Absent, "AA"},
                atBats \in AtBatLists }

MaxGames == 2

GameLists == UNION { [1..n -> PbpGames] : n \in 0..MaxGames }

InitAgg ==
    /\ games \in GameLists
    /\ pc = "start"
    /\ agg = EmptyAgg
    /\ per_game = EmptyPerGame
    /\ acc = NewStats
    /\ unsplit = init_split
    /\ fed = 0
    /\ out = NoCall
    /\ last = NoAtBat
    /\ player_data = EmptyDict
    /\ upd = <<>>
    /\ updates = 0
    /\ players = EmptyDict
    /\ inj = <<>>

\* batter_stats, ... = process_games_for_stats(games); a TypeError ends the run
\* with nothing assigned
ProcessGamesForStats ==
    /\ pc = "start"
    /\ IF process_games_for_stats_raises(games)
       THEN agg' = agg /\ pc' = "raised"
       ELSE agg' = process_games_for_stats(games) /\ pc' = "stats"
    /\ UNCHANGED <<games, per_game, accVars, updVars>>

\* batter_per_game, pitcher_per_game = process_games_per_game(games); a TypeError
\* ends the run with nothing assigned
ProcessGamesPerGame ==
    /\ pc = "stats"
    /\ IF process_games_per_game_raises(games)
       THEN per_game' = per_game /\ pc' = "raised"
       ELSE per_game' = process_games_per_game(games) /\ pc' = "done"
    /\ UNCHANGED <<games, agg, accVars, updVars>>

NextAgg == ProcessGamesForStats \/ ProcessGamesPerGame

SpecAgg == InitAgg /\ [][NextAgg]_vars

(***************************************************************************)
(* Merge / update logic                                                     *)
(***************************************************************************)
\* stale_keys of update_player_advanced_stats (line 516)
stale_keys == {"Swing%", "Contact%", "CSW%", "Whiff%"}

\* a merge that replaces the target
DictReplace(d, src) == src

\* for key, value in src.items(): if value is not None: d[key] = value
\* (lines 521-523, 550-552, 577-579, 593-595): a None value leaves the key as it was
DictMerge(d, src) ==
    LET written == {k \in DOMAIN src : ~IsNone(src[k])}
    IN [x \in DOMAIN d \cup written |-> IF x \in written THEN src[x] ELSE d[x]]

\* lines 531-533: every non-empty split of the argument replaces the stored one
write_splits(stored, splits) ==
    [n \in DOMAIN stored \cup {m \in DOMAIN splits : DOMAIN splits[m] # {}} |->
        IF n \in DOMAIN splits /\ DOMAIN splits[n] # {} THEN splits[n] ELSE stored[n]]

\* lines 535-539: the stale keys are popped from every stored split
clean_splits(stored) == [n \in DOMAIN stored |-> DictPopAll(stored[n], stale_keys)]

\* a level loop that fills only the levels already stored, and creates the others empty
write_levels_existing(stored, level_stats) ==
    [l \in DOMAIN stored \cup DOMAIN level_stats |->
        IF l \notin DOMAIN level_stats THEN stored[l]
        ELSE IF l \in DOMAIN stored THEN DictMerge(stored[l], level_stats[l])
        ELSE EmptyDict]

\* lines 547-552: the stats of every level are merged into the stored level
write_levels(stored, level_stats) ==
    [l \in DOMAIN stored \cup DOMAIN level_stats |->
        IF l \in DOMAIN level_stats
        THEN DictMerge(TouchDict(stored, l), level_stats[l])
        ELSE stored[l]]

\* update_player_advanced_stats(player_data, adv_stats, splits, stat_type, level_stats):
\* the record after the call
update_player_advanced_stats(data, adv_stats, splits, stat_type, level_stats) ==
    LET stats_key == IF stat_type = "batting" THEN "batting" ELSE "pitching"
        splits_key == IF stats_key = "batting" THEN "battingSplits" ELSE "pitchingSplits"
        by_level_key == IF stats_key = "batting" THEN "battingByLevel" ELSE "pitchingByLevel"
        main == DictMerge(DictPopAll(TouchDict(data, stats_key), stale_keys), adv_stats)
        d1 == DictSet(data, stats_key, main)
        d2 == IF DOMAIN splits # {}
              THEN DictSet(d1, splits_key,
                           clean_splits(write_splits(TouchDict(d1, splits_key), splits)))
              ELSE d1
    IN IF DOMAIN level_stats # {}
       THEN DictSet(d2, by_level_key, write_levels(TouchDict(d2, by_level_key), level_stats))
       ELSE d2

\* the caller's splits argument after the call: the split dicts are stored by
\* reference, so the cleanup of the stored splits pops their stale keys too
splits_after_update(splits) ==
    [n \in DOMAIN splits |->
        IF DOMAIN splits[n] # {} THEN DictPopAll(splits[n], stale_keys) ELSE splits[n]]

(***************************************************************************)
(* SpecUpd: a persisted record is updated with computed stats               *)
(***************************************************************************)
\* self.add_at_bat(at_bat, opponent_hand, batter_hand), n times
RECURSIVE FeedTimes(_, _, _, _, _)
FeedTimes(self, at_bat, opponent_hand, batter_hand, n) ==
    IF n = 0 THEN self
    ELSE Assigned(add_at_bat(self, at_bat, opponent_hand, batter_hand), LAMBDA fed_once :
             FeedTimes(fed_once, at_bat, opponent_hand, batter_hand, n - 1))

\* a month of a regular: 12 classifiable BIP and 62 pitches, 58 of them against
\* left-handers
SeasonAcc ==
    FeedTimes(FeedTimes(FeedTimes(NewStats, GroundOut, "L", "R", 8),
                        HomeRun, "R", "R", 4),
              StrikeOut, "L", "R", 14)

\* two legacy at-bats
SmallAcc == FeedTimes(NewStats, LineOutLegacy, "R", "L", 2)

DefaultStats(self, is_batter) ==
    get_stats(self, is_batter, DEFAULT_MIN_BIP, DEFAULT_MIN_PITCHES, DEFAULT_MIN_DIRECTION)

\* adv_stats: what get_stats returns with the default minima
AdvStatsChoices ==
    <<DefaultStats(SeasonAcc, TRUE), DefaultStats(SeasonAcc, FALSE), DefaultStats(SmallAcc, TRUE)>>

\* splits: what get_split_stats returns, or nothing
SplitsChoices == <<EmptyDict, get_split_stats(SeasonAcc, TRUE), get_split_stats(SmallAcc, TRUE)>>

\* level_stats: nothing, one level, two levels
LevelStatsChoices ==
    << EmptyDict,
       ("AA" :> DefaultStats(SeasonAcc, TRUE)),
       ("AA" :> DefaultStats(SmallAcc, TRUE) @@ "MiLB" :> DefaultStats(SeasonAcc, TRUE)) >>

\* a game-log entry as the stats fetcher writes it
LogEntry(gameId) == [gameId |-> gameId, date |-> "2025-06-01", stats |-> ("AB" :> 4 @@ "H" :> 1)]

\* the records on disk: one with no stats yet, one as the stats fetcher writes
\* it, one that an earlier run of this script (also of an older version, which
\* wrote Whiff%) has updated
PriorRecords ==
    { ("name" :> "Player One"),
      ( "name" :> "Player One"
        @@ "batting" :> ("AVG" :> 300 @@ "HR" :> 5)
        @@ "battingByLevel" :> ("AAA" :> ("AVG" :> 300 @@ "HR" :> 5))
        @@ "battingGameLog" :> <<LogEntry(101)>>
        @@ "pitching" :> ("ERA" :> 4500)
        @@ "pitchingGameLog" :> <<LogEntry(102)>> ),
      ( "name" :> "Player One"
        @@ "batting" :> ("AVG" :> 300 @@ "BIP" :> 20 @@ "GB%" :> 400 @@ "FB%" :> 350
                         @@ "LD%" :> 250 @@ "HR/FB" :> 143 @@ "Pull-Air%" :> 600
                         @@ "Swing%" :> 450 @@ "Contact%" :> 800 @@ "Whiff%" :> 200)
        @@ "battingSplits" :> ("vsL" :> ("BIP" :> 11 @@ "GB%" :> 455 @@ "FB%" :> 364
                                         @@ "LD%" :> 182 @@ "Whiff%" :> 250 @@ "AVG" :> 280)
                               @@ "vsR" :> ("BIP" :> 9 @@ "Swing%" :> 470))
        @@ "battingByLevel" :> ("AA" :> ("AVG" :> 310 @@ "BIP" :> 20 @@ "GB%" :> 400
                                         @@ "FB%" :> 350 @@ "LD%" :> 250 @@ "CSW%" :> 280))
        @@ "battingGameLog" :> <<LogEntry(101), LogEntry(103)>>
        @@ "pitching" :> ("ERA" :> 4500 @@ "CSW%" :> 300 @@ "Whiff%" :> 220)
        @@ "pitchingSplits" :> ("vsL" :> ("BIP" :> 3 @@ "CSW%" :> 310)) ) }

MaxUpdates == 2

InitUpd ==
    /\ player_data \in PriorRecords
    /\ upd = [op |-> "none", before |-> EmptyDict, adv_stats |-> EmptyDict,
              splits |-> EmptyDict, stat_type |-> "batting", level_stats |-> EmptyDict]
    /\ updates = 0
    /\ players = EmptyDict
    /\ inj = <<>>
    /\ acc = NewStats
    /\ unsplit = init_split
    /\ fed = 0
    /\ out = NoCall
    /\ last = NoAtBat
    /\ games = <<>>
    /\ pc = "idle"
    /\ agg = <<>>
    /\ per_game = <<>>

\* update_player_advanced_stats(player_data, adv_stats, splits, stat_type, level_stats)
UpdatePlayer(adv_stats, splits, stat_type, level_stats) ==
    /\ updates < MaxUpdates
    /\ player_data' = update_player_advanced_stats(player_data, adv_stats, splits,
                                                   stat_type, level_stats)
    /\ upd' = [op |-> "update", before |-> player_data, adv_stats |-> adv_stats,
               splits |-> splits, stat_type |-> stat_type, level_stats |-> level_stats]
    /\ updates' = updates + 1
    /\ UNCHANGED <<accVars, aggVars, players, inj>>

NextUpd ==
    \E a \in DOMAIN AdvStatsChoices, s \in DOMAIN SplitsChoices,
       stat_type \in {"batting", "pitching"}, l \in DOMAIN LevelStatsChoices :
        \E adv_stats \in {AdvStatsChoices[a]}, splits \in {SplitsChoices[s]},
           level_stats \in {LevelStatsChoices[l]} :
            UpdatePlayer(adv_stats, splits, stat_type, level_stats)

SpecUpd == InitUpd /\ [][NextUpd]_vars

\* the two game logs of a player record (lines 568, 586)
GameLogKeys == {"battingGameLog", "pitchingGameLog"}

(***************************************************************************)
(* Per-game injection                                                       *)
(***************************************************************************)
\* log_entry.get('gameId'): 0 stands for a missing (or zero) id, which is falsy
game_id_of(log_entry) == IF "gameId" \in DOMAIN log_entry THEN log_entry["gameId"] ELSE 0

\* "if game_id and game_id in game_stats" (lines 571, 587)
inject_matches(log_entry, game_stats) ==
    game_id_of(log_entry) # 0 /\ game_id_of(log_entry) \in DOMAIN game_stats

\* the per-game stats of an entry: get_stats with the relaxed minima 1 / 1 / 1
per_game_stats(log_entry, game_stats, is_batter) ==
    get_stats(game_stats[game_id_of(log_entry)], is_batter, 1, 1, 1)

\* an injection that replaces the stats of the entry by the per-game stats
inject_entry_replace(log_entry, game_stats, is_batter) ==
    IF inject_matches(log_entry, game_stats)
    THEN DictSet(log_entry, "stats", per_game_stats(log_entry, game_stats, is_batter))
    ELSE log_entry

\* the body of the loop over a player's game log (lines 570-581, 586-596)
inject_entry(log_entry, game_stats, is_batter) ==
    IF inject_matches(log_entry, game_stats)
    THEN LET stats == IF "stats" \in DOMAIN log_entry THEN log_entry["stats"] ELSE EmptyDict
         IN DictSet(log_entry, "stats",
                    DictMerge(stats, per_game_stats(log_entry, game_stats, is_batter)))
    ELSE log_entry

\* one of the two loops over the per-game map (lines 565-581 or 583-596)
inject_side(ps, per_game_map, log_key, is_batter) ==
    [player_id \in DOMAIN ps |->
        IF player_id \in DOMAIN per_game_map /\ log_key \in DOMAIN ps[player_id]
        THEN LET game_logs == ps[player_id][log_key]
             IN DictSet(ps[player_id], log_key,
                        [i \in DOMAIN game_logs |->
                            inject_entry(game_logs[i], per_game_map[player_id], is_batter)])
        ELSE ps[player_id]]

\* the entries one loop updates, as <<player id, index>>
injected_entries(ps, per_game_map, log_key) ==
    UNION { {<<player_id, i>> :
                i \in {j \in DOMAIN ps[player_id][log_key] :
                          inject_matches(ps[player_id][log_key][j], per_game_map[player_id])}} :
            player_id \in {q \in DOMAIN ps : q \in DOMAIN per_game_map /\ log_key \in DOMAIN ps[q]} }

\* inject_per_game_stats(players, batter_per_game, pitcher_per_game): the players
\* as it leaves them and the count it returns
inject_per_game_stats(ps, batter_per_game, pitcher_per_game) ==
    [players |-> inject_side(inject_side(ps, batter_per_game, "battingGameLog", TRUE),
                             pitcher_per_game, "pitchingGameLog", FALSE),
     injected |-> Cardinality(injected_entries(ps, batter_per_game, "battingGameLog"))
                  + Cardinality(injected_entries(ps, pitcher_per_game, "pitchingGameLog"))]

(***************************************************************************)
(* The merge of calculate_for_month                                         *)
(***************************************************************************)
\* the per-level stats of a player (lines 650-656, 667-673); get_stats always
\* holds BIP, so no level is left out
build_level_stats(by_level, player_id, is_batter) ==
    LET levels == TouchDict(by_level, player_id)
    IN [l \in DOMAIN levels |->
          get_stats(levels[l], is_batter, DEFAULT_MIN_BIP, DEFAULT_MIN_PITCHES,
                    DEFAULT_MIN_DIRECTION)]

\* a merge that gives every player of the PBP data a record
merge_targets_all(ps, stats_map) == DOMAIN ps \cup DOMAIN stats_map

\* the players the merge writes to: "if player_id in players" (lines 658, 675)
merge_targets(ps, stats_map) == DOMAIN ps

\* one of the two update loops (lines 645-660 or 662-677)
merge_side(ps, stats_map, by_level, stat_type, is_batter) ==
    [player_id \in merge_targets(ps, stats_map) |->
        IF player_id \in DOMAIN stats_map
        THEN update_player_advanced_stats(
                 TouchDict(ps, player_id),
                 get_stats(stats_map[player_id], is_batter, DEFAULT_MIN_BIP,
                           DEFAULT_MIN_PITCHES, DEFAULT_MIN_DIRECTION),
                 get_split_stats(stats_map[player_id], is_batter),
                 stat_type,
                 build_level_stats(by_level, player_id, is_batter))
        ELSE ps[player_id]]

\* the two update loops of calculate_for_month (lines 645-677): the players
\* after them
merge_advanced_stats(ps, st) ==
    merge_side(merge_side(ps, st.batter_stats, st.batter_stats_by_level, "batting", TRUE),
               st.pitcher_stats, st.pitcher_stats_by_level, "pitching", FALSE)

(***************************************************************************)
(* SpecInj: the games of a month are aggregated, the aggregates merged into *)
(* the players' records and the per-game stats injected into their game     *)
(* logs, as calculate_for_month does with a month that has games            *)
(***************************************************************************)
\* a game-log entry with its traditional stats
Entry(gameId, stats) == ("gameId" :> gameId @@ "date" :> "2025-06-01" @@ "stats" :> stats)

\* the monthly stats files: one where player 1 and player 2 have batting and
\* pitching logs (with entries of games 101 and 102, of a game with no PBP data,
\* with no gameId, with gameId 0, with no stats object, with per-game stats of
\* an earlier run) and player 3 is in no PBP game; one where player 2 has no logs
PlayerFiles ==
    << ( "1" :> ( "name" :> "Player One"
                  @@ "batting" :> ("AVG" :> 300)
                  @@ "battingGameLog" :>
                       << Entry(101, ("AB" :> 4 @@ "H" :> 1)),
                          Entry(103, ("AB" :> 3 @@ "H" :> 0)),
                          ("date" :> "2025-06-03" @@ "stats" :> ("AB" :> 5 @@ "H" :> 2)),
                          ("gameId" :> 102 @@ "date" :> "2025-06-02") >>
                  @@ "pitchingGameLog" :> << Entry(101, ("IP" :> 1)) >> )
         @@ "2" :> ( "name" :> "Player Two"
                     @@ "battingGameLog" :> << Entry(101, ("AB" :> 4 @@ "H" :> 1)) >>
                     @@ "pitchingGameLog" :>
                          << Entry(102, ("IP" :> 6 @@ "BIP" :> 9 @@ "GB%" :> 400 @@ "Swing%" :> 500)),
                             Entry(0, ("IP" :> 2)),
                             Entry(101, ("IP" :> 5)) >> )
         @@ "3" :> ( "name" :> "Player Three"
                     @@ "battingGameLog" :> << Entry(101, ("AB" :> 2 @@ "H" :> 1)) >> ) ),
       ( "2" :> ("name" :> "Player Two" @@ "pitching" :> ("ERA" :> 4500)) ) >>

NoInject == [op |-> "none", before |-> EmptyDict, injected |-> 0]

\* "if not games: return 0" (lines 629-631): with no game nothing is processed
InitInj ==
    /\ games \in GameLists \ {<<>>}
    /\ pc = "start"
    /\ agg = EmptyAgg
    /\ per_game = EmptyPerGame
    /\ \E f \in DOMAIN PlayerFiles : players = PlayerFiles[f]
    /\ inj = NoInject
    /\ acc = NewStats
    /\ unsplit = init_split
    /\ fed = 0
    /\ out = NoCall
    /\ last = NoAtBat
    /\ player_data = EmptyDict
    /\ upd = <<>>
    /\ updates = 0

\* the update loops over batter_stats and pitcher_stats (lines 645-677)
MergeAdvancedStats ==
    /\ pc = "done"
    /\ players' = merge_advanced_stats(players, agg)
    /\ pc' = "merged"
    /\ UNCHANGED <<games, agg, per_game, accVars, player_data, upd, updates, inj>>

\* injected = inject_per_game_stats(players, batter_per_game, pitcher_per_game)
InjectPerGameStats ==
    LET res == inject_per_game_stats(players, per_game.batter_per_game,
                                     per_game.pitcher_per_game)
    IN /\ pc = "merged"
       /\ players' = res.players
       /\ inj' = [op |-> "inject", before |-> players, injected |-> res.injected]
       /\ pc' = "injected"
       /\ UNCHANGED <<games, agg, per_game, accVars, player_data, upd, updates>>

NextInj ==
    ProcessGamesForStats \/ ProcessGamesPerGame \/ MergeAdvancedStats \/ InjectPerGameStats

SpecInj == InitInj /\ [][NextInj]_vars

(***************************************************************************)
(* calculate_for_month and SpecMonth: the stats file of a month is merged   *)
(* with the aggregates of the month's games and saved                       *)
(***************************************************************************)
\* calculate_for_month, given the games load_pbp_for_month returns and the
\* players of the file load_monthly_stats returns: the aggregates, the players
\* it saves (or leaves, with no games) and the count it returns. A TypeError of
\* process_games_for_stats (line 634) is not caught: nothing is saved and
\* nothing returned. process_games_per_game feeds at-bats of the same games, so
\* it does not raise once process_games_for_stats has returned.
calculate_for_month(gs, ps) ==
    IF gs = <<>>
    THEN [saved |-> FALSE, raised |-> FALSE, agg |-> EmptyAgg, per_game |-> EmptyPerGame,
          players |-> ps, injected |-> 0, updated_count |-> 0]
    ELSE IF process_games_for_stats_raises(gs)
    THEN [saved |-> FALSE, raised |-> TRUE, agg |-> EmptyAgg, per_game |-> EmptyPerGame,
          players |-> ps, injected |-> 0, updated_count |-> 0]
    ELSE
      Assigned(process_games_for_stats(gs), LAMBDA st :
      Assigned(process_games_per_game(gs), LAMBDA pg :
      Assigned(merge_advanced_stats(ps, st), LAMBDA merged :
      Assigned(inject_per_game_stats(merged, pg.batter_per_game, pg.pitcher_per_game),
               LAMBDA res :
          [saved |-> TRUE, raised |-> FALSE,
           agg |-> st, per_game |-> pg, players |-> res.players,
           injected |-> res.injected,
           updated_count |-> Cardinality(DOMAIN st.batter_stats \cap DOMAIN ps)
                             + Cardinality(DOMAIN st.pitcher_stats \cap DOMAIN ps)]))))

\* the stats files of the month: those of SpecInj, one that holds player 1 only,
\* and none (load_monthly_stats then returns no players)
MonthFiles == PlayerFiles \o << ("1" :> PlayerFiles[1]["1"]), EmptyDict >>

InitMonth ==
    /\ games \in GameLists
    /\ pc = "start"
    /\ agg = EmptyAgg
    /\ per_game = EmptyPerGame
    /\ \E f \in DOMAIN MonthFiles : players = MonthFiles[f]
    /\ inj = NoInject
    /\ acc = NewStats
    /\ unsplit = init_split
    /\ fed = 0
    /\ out = NoCall
    /\ last = NoAtBat
    /\ player_data = EmptyDict
    /\ upd = <<>>
    /\ updates = 0

\* updated_count = calculate_for_month(year, month)
CalculateForMonth ==
    /\ pc = "start"
    /\ \E res \in {calculate_for_month(games, players)} :
          /\ agg' = res.agg
          /\ per_game' = res.per_game
          /\ players' = res.players
          /\ inj' = [op |-> "calculate_for_month", before |-> players,
                     injected |-> res.injected, updated_count |-> res.updated_count]
          /\ pc' = IF res.raised THEN "raised" ELSE IF res.saved THEN "saved" ELSE "returned"
    /\ UNCHANGED <<games, accVars, player_data, upd, updates>>

NextMonth == CalculateForMonth

SpecMonth == InitMonth /\ [][NextMonth]_vars

(***************************************************************************)
(* SpecOne: one at-bat of any shape is fed to an accumulator, which is read *)
(***************************************************************************)
OneEvents == {"home_run", "single", "field_out", "strikeout", Null}
OneResults == {"Home Run", "Single", "Groundout", "Lineout", Null}
OneDescriptions == {Null, "Singles on a Ground Ball to left.", "homers on a fly ball to left."}

\* pitch lists: none; a line drive, a ground ball and a fly ball in play; a ball
\* in play with no hit data; an unknown and a missing call code; an unknown code
\* and a ball
OnePitchLists ==
    { <<>>,
      <<Pitch("X", "Line_Drive", <<60>>)>>,
      <<Pitch("X", "ground_ball", <<200>>)>>,
      <<Call("S"), Pitch("E", "fly_ball", <<120>>)>>,
      <<Call("B"), Pitch("X", Null, <<>>)>>,
      <<Call("Z"), Pitch(Absent, Absent, <<>>)>>,
      <<Call("Z"), Call("B")>> }

\* the legacy counters: all missing; pitchCount 4, balls 1, strikes 2; pitchCount null
OneLegacy ==
    { [pitchCount |-> <<>>, balls |-> <<>>, strikes |-> <<>>, nulls |-> {}],
      [pitchCount |-> <<4>>, balls |-> <<1>>, strikes |-> <<2>>, nulls |-> {}],
      [pitchCount |-> <<>>, balls |-> <<>>, strikes |-> <<>>, nulls |-> {"pitchCount"}] }

OneAtBats ==
    { [AtBat(eventType, result, description, pitches, legacy.pitchCount)
         EXCEPT !.balls = legacy.balls, !.strikes = legacy.strikes, !.nulls = legacy.nulls] :
      eventType \in OneEvents, result \in OneResults, description \in OneDescriptions,
      pitches \in OnePitchLists, legacy \in OneLegacy }

OneOpponentHands == {"L", Null}
OneBatterHands == {"R", "S", Null}

\* the minima a caller passes: zero or the per-game minimum (lines 573, 589)
OneMinima == {0, 1}

\* the accumulator before the at-bat: new, or fed a pitch-level home run against
\* a left-hander
StartAccs == {NewStats, add_at_bat(NewStats, HomeRun, "L", "R")}

InitOne ==
    /\ acc \in StartAccs
    /\ unsplit = init_split
    /\ fed = 0
    /\ out = NoCall
    /\ last = NoAtBat
    /\ games = <<>>
    /\ pc = "idle"
    /\ agg = <<>>
    /\ per_game = <<>>
    /\ player_data = EmptyDict
    /\ upd = <<>>
    /\ updates = 0
    /\ players = EmptyDict
    /\ inj = <<>>

\* acc.add_at_bat(at_bat, opponent_hand, batter_hand)
AddOneAtBat(at_bat, opponent_hand, batter_hand) ==
    LET raised == add_at_bat_raises(at_bat)
    IN /\ acc' = add_at_bat(acc, at_bat, opponent_hand, batter_hand)
       /\ unsplit' = IF opponent_hand \in {"L", "R"} THEN unsplit
                     ELSE AddOwn(unsplit, at_bat, batter_hand)
       /\ fed' = fed + 1
       /\ last' = [op |-> "add_at_bat", before |-> acc, at_bat |-> at_bat,
                   opponent_hand |-> opponent_hand, batter_hand |-> batter_hand,
                   raised |-> raised]
       /\ UNCHANGED <<out, aggVars, updVars>>

\* the one add_at_bat call, made before the accumulator is read
AddOne ==
    /\ last = NoAtBat
    /\ out = NoCall
    /\ \E at_bat \in OneAtBats, opponent_hand \in OneOpponentHands,
          batter_hand \in OneBatterHands :
          AddOneAtBat(at_bat, opponent_hand, batter_hand)

NextOne ==
    \/ AddOne
    \/ \E is_batter \in BOOLEAN, min_bip \in OneMinima, min_pitches \in OneMinima,
          min_direction \in OneMinima :
          GetStats(is_batter, min_bip, min_pitches, min_direction)

SpecOne == InitOne /\ [][NextOne]_vars

(***************************************************************************)
(* SpecPitch: determine_pull_from_coordinates is called, or one at-bat with *)
(* one ball in play or one call code is fed to an accumulator               *)
(***************************************************************************)
\* hit coordinates: missing, both sides, the center and the two thresholds
HitCoords == {<<>>, <<0>>, <<60>>, <<99>>, <<100>>, <<125>>, <<150>>, <<151>>, <<200>>}

\* event types: balls in play, the strikeout and walk events, empty and null
PitchEvents == {"single", "field_out", "strikeout", "strikeout_double_play", "walk",
                "intent_walk", "hit_by_pitch", "", Null}

PitchTrajectories == {"ground_ball", "fly_ball", "popup", "Line_Drive", "bunt_grounder", Null}

PitchResults == {"Groundout", "Flyout", Null}

\* the pitch lists around a final pitch: alone, after a foul, before a ball
\* (the hit data then sits on a pitch that is not the last), and none (legacy)
PitchShapes == {"alone", "after_foul", "not_last", "legacy"}

ShapedPitches(shape, pitch) ==
    CASE shape = "alone" -> <<pitch>>
      [] shape = "after_foul" -> <<Call("F"), pitch>>
      [] shape = "not_last" -> <<pitch, Call("B")>>
      [] shape = "legacy" -> <<>>

\* at-bats ended by a pitch put in play
HitAtBats ==
    { AtBat(eventType, result, Null, ShapedPitches(shape, Pitch("X", trajectory, coordX)), <<>>) :
      eventType \in PitchEvents, result \in PitchResults, shape \in PitchShapes,
      trajectory \in PitchTrajectories, coordX \in HitCoords }

\* at-bats of one pitch, for every call code of the alphabet, an unknown code
\* and a missing one
CodeAtBats ==
    { AtBat(eventType, Null, Null, <<Call(code)>>, <<>>) :
      eventType \in {"walk", "strikeout"}, code \in PITCH_CODES \cup {"Z", Absent} }

PitchAtBats == HitAtBats \cup CodeAtBats

NoPull == [op |-> "none", coord_x |-> <<>>, batter_hand |-> Null, is_pull |-> Null]

InitPitch ==
    /\ acc \in StartAccs
    /\ unsplit = init_split
    /\ fed = 0
    /\ out = NoPull
    /\ last = NoAtBat
    /\ games = <<>>
    /\ pc = "idle"
    /\ agg = <<>>
    /\ per_game = <<>>
    /\ player_data = EmptyDict
    /\ upd = <<>>
    /\ updates = 0
    /\ players = EmptyDict
    /\ inj = <<>>

\* is_pull = determine_pull_from_coordinates(coord_x, batter_hand)
DeterminePull(coord_x, batter_hand) ==
    /\ out' = [op |-> "determine_pull", coord_x |-> coord_x, batter_hand |-> batter_hand,
               is_pull |-> determine_pull_from_coordinates(coord_x, batter_hand)]
    /\ UNCHANGED <<accVars_but_out, aggVars, updVars>>

\* the one call of determine_pull_from_coordinates
DetermineOne ==
    /\ last = NoAtBat
    /\ out = NoPull
    /\ \E coord_x \in HitCoords, batter_hand \in Hands \cup {""} :
          DeterminePull(coord_x, batter_hand)

\* the one add_at_bat call
AddPitchAtBat ==
    /\ last = NoAtBat
    /\ out = NoPull
    /\ \E at_bat \in PitchAtBats, opponent_hand \in OneOpponentHands, batter_hand \in Hands :
          AddOneAtBat(at_bat, opponent_hand, batter_hand)

NextPitch == DetermineOne \/ AddPitchAtBat

SpecPitch == InitPitch /\ [][NextPitch]_vars

(***************************************************************************)
(* Properties of SpecUpd                                                    *)
(***************************************************************************)
\* the rate fields get_stats can emit, and all its output fields
RateKeys == {"GB%", "FB%", "LD%", "HR/FB", "Pull%", "Pull-Air%", "Swing%", "Contact%", "CSW%"}
OutputKeys == RateKeys \cup {"BIP"}

\* the keys of the record the last update worked on
StatsKey == IF upd.stat_type = "batting" THEN "batting" ELSE "pitching"
SplitsKey == IF upd.stat_type = "batting" THEN "battingSplits" ELSE "pitchingSplits"
ByLevelKey == IF upd.stat_type = "batting" THEN "battingByLevel" ELSE "pitchingByLevel"

\* every rate key of a stored dict is one the recomputation produced
NoStaleKey(stored, computed) == DOMAIN stored \cap RateKeys \subseteq DOMAIN computed

\* C2 as claimed: after the update every advanced-stat key under the stats
\* object, under each split and under each level that the recomputation did
\* not reproduce is gone.
StaleKeysRemoved ==
    upd.op = "update" =>
        /\ NoStaleKey(player_data[StatsKey], upd.adv_stats)
        /\ \A n \in DOMAIN TouchDict(player_data, SplitsKey) :
              NoStaleKey(player_data[SplitsKey][n], TouchDict(upd.splits, n))
        /\ \A l \in DOMAIN TouchDict(player_data, ByLevelKey) :
              NoStaleKey(player_data[ByLevelKey][l], TouchDict(upd.level_stats, l))

\* C3: a second update with the same arguments (the splits as passed, or as the
\* first call left them) leaves the record as the first update left it.
UpdateIdempotent ==
    upd.op = "update" =>
        /\ update_player_advanced_stats(player_data, upd.adv_stats, upd.splits,
                                        upd.stat_type, upd.level_stats) = player_data
        /\ update_player_advanced_stats(player_data, upd.adv_stats,
                                        splits_after_update(upd.splits),
                                        upd.stat_type, upd.level_stats) = player_data

\* C3 witness: an update that changed the record, wrote splits holding a stale
\* key and created a level
UpdateIdempotentWitness ==
    /\ upd.op = "update"
    /\ upd.before # player_data
    /\ "vsL" \in DOMAIN upd.splits /\ "Swing%" \in DOMAIN upd.splits["vsL"]
    /\ "MiLB" \in DOMAIN upd.level_stats
    /\ "MiLB" \notin DOMAIN TouchDict(upd.before, ByLevelKey)

\* every key of old outside `touched` is in new with its old value
KeptOutside(old, new, touched) ==
    \A k \in DOMAIN old \ touched : k \in DOMAIN new /\ new[k] = old[k]

\* every top-level key but those of the selected stat type keeps its value
OtherKeysKept ==
    /\ DOMAIN player_data \subseteq DOMAIN upd.before \cup {StatsKey, SplitsKey, ByLevelKey}
    /\ KeptOutside(upd.before, player_data, {StatsKey, SplitsKey, ByLevelKey})

\* C4 as claimed: every key that is not an output field inside the selected
\* stats object, its splits and its levels keeps its prior value, and every
\* other key of the record is unchanged.
FrameOutputKeys ==
    upd.op = "update" =>
        /\ OtherKeysKept
        /\ KeptOutside(TouchDict(upd.before, StatsKey), player_data[StatsKey], OutputKeys)
        /\ \A n \in DOMAIN TouchDict(upd.before, SplitsKey) :
              /\ n \in DOMAIN player_data[SplitsKey]
              /\ KeptOutside(upd.before[SplitsKey][n], player_data[SplitsKey][n], OutputKeys)
        /\ \A l \in DOMAIN TouchDict(upd.before, ByLevelKey) :
              /\ l \in DOMAIN player_data[ByLevelKey]
              /\ KeptOutside(upd.before[ByLevelKey][l], player_data[ByLevelKey][l], OutputKeys)

\* a split of the argument that the update writes
Written(n) == n \in DOMAIN upd.splits /\ DOMAIN upd.splits[n] # {}

\* C4 amended: inside the selected stats object only the output fields and the
\* legacy key Whiff% change; inside its levels only the output fields; a split
\* named in the argument is replaced whole by the argument's stats less the
\* stale keys, the other splits lose at most the stale keys (nothing when no
\* splits are passed); every other key of the record is unchanged.
FrameOutputKeysAndWhiff ==
    upd.op = "update" =>
        /\ OtherKeysKept
        /\ KeptOutside(TouchDict(upd.before, StatsKey), player_data[StatsKey],
                       OutputKeys \cup {"Whiff%"})
        /\ \A n \in DOMAIN TouchDict(upd.before, SplitsKey) :
              /\ n \in DOMAIN player_data[SplitsKey]
              /\ IF Written(n)
                 THEN player_data[SplitsKey][n] = DictPopAll(upd.splits[n], stale_keys)
                 ELSE KeptOutside(upd.before[SplitsKey][n], player_data[SplitsKey][n],
                                  IF DOMAIN upd.splits # {} THEN stale_keys ELSE {})
        /\ \A l \in DOMAIN TouchDict(upd.before, ByLevelKey) :
              /\ l \in DOMAIN player_data[ByLevelKey]
              /\ KeptOutside(upd.before[ByLevelKey][l], player_data[ByLevelKey][l], OutputKeys)

\* C4 witness: the update met a traditional stat and Whiff% in the stats object
\* and a traditional stat in a split it rewrote
FrameWitness ==
    /\ upd.op = "update"
    /\ upd.stat_type = "batting"
    /\ {"AVG", "Whiff%"} \subseteq DOMAIN TouchDict(upd.before, "batting")
    /\ "AVG" \in DOMAIN player_data["batting"]
    /\ "Whiff%" \notin DOMAIN player_data["batting"]
    /\ "battingSplits" \in DOMAIN upd.before
    /\ "AVG" \in DOMAIN upd.before["battingSplits"]["vsL"]
    /\ "AVG" \notin DOMAIN player_data["battingSplits"]["vsL"]
    /\ DOMAIN upd.level_stats # {}

\* C5 as claimed: after an update with splits, the stored split of every name
\* passed holds every stat key and value of that split's stats.
SplitsCarryAllStats ==
    (upd.op = "update" /\ DOMAIN upd.splits # {}) =>
        \A n \in DOMAIN upd.splits :
            /\ n \in DOMAIN player_data[SplitsKey]
            /\ \A k \in DOMAIN upd.splits[n] :
                  /\ k \in DOMAIN player_data[SplitsKey][n]
                  /\ player_data[SplitsKey][n][k] = upd.splits[n][k]

(***************************************************************************)
(* Properties of SpecOne                                                    *)
(***************************************************************************)
\* C11: in the root and in both splits home_runs never exceeds fly_balls, and
\* get_stats emits HR/FB only when fly_balls is positive.
HomeRunsSubset ==
    /\ \A a \in Accumulators(acc) : a.home_runs <= a.fly_balls
    /\ (out.op = "get_stats" /\ "HR/FB" \in DOMAIN out.stats) => acc.fly_balls > 0

\* C11 witness: after a home run and a fly ball that is none, get_stats emits
\* HR/FB = 0.5
HomeRunsSubsetWitness ==
    /\ last.op = "add_at_bat"
    /\ acc.home_runs = 1 /\ acc.fly_balls = 2
    /\ acc.vs_left[1].home_runs = 1 /\ acc.vs_left[1].fly_balls = 2
    /\ out.op = "get_stats"
    /\ "HR/FB" \in DOMAIN out.stats /\ out.stats["HR/FB"] = 500

\* the arguments of the recorded add_at_bat call, as the code reads them
LastEvent == Get(last.at_bat.eventType, "")
LastResult == Get(last.at_bat.result, "")
LastDescription == Get(last.at_bat.description, "")
LastPitches == last.at_bat.pitches
LastTrajectory ==
    IF LastPitches = <<>> THEN Null ELSE LastPitches[Len(LastPitches)].trajectory

\* add_at_bat was called and returned
Added == last.op = "add_at_bat" /\ ~last.raised

\* how much a counter of the root grew in the recorded call
Grew(c) == acc[c] - last.before[c]

\* C12 as claimed: an at-bat whose event type is home_run increments fly_balls
\* and home_runs by one, whatever its trajectory, result label and description.
HomeRunAlwaysFlyBall ==
    (Added /\ LastEvent = "home_run") =>
        Grew("fly_balls") = 1 /\ Grew("home_runs") = 1

\* the result label is in one of the three out-label sets
InLabelSets(result) ==
    result \in GROUNDBALL_RESULTS \cup FLYBALL_RESULTS \cup LINEDRIVE_RESULTS

\* a hit with no final-pitch trajectory and no matching out-label was added
BareHitAdded ==
    /\ Added
    /\ LastEvent \in {"single", "double", "triple"}
    /\ ~Truthy(LastTrajectory)
    /\ ~InLabelSets(LastResult)

\* C13 as claimed: such a hit increments none of ground_balls, fly_balls and
\* line_drives, whatever its description contains.
BareHitUnclassified ==
    BareHitAdded =>
        Grew("ground_balls") = 0 /\ Grew("fly_balls") = 0 /\ Grew("line_drives") = 0

\* the class a description names, for a hit with a non-empty result label
DescribedClass ==
    LET d == IF Truthy(LastResult) /\ Truthy(LastDescription)
             THEN lower(LastDescription) ELSE ""
    IN IF contains(d, "ground ball") THEN "GB"
       ELSE IF contains(d, "line drive") THEN "LD"
       ELSE IF contains(d, "fly ball") \/ contains(d, "pop up") THEN "FB"
       ELSE Null

\* C13 amended: such a hit increments exactly the counter of the class its
\* description names ("ground ball", "line drive", "fly ball" or "pop up", in any
\* letter case, the result label being non-empty), and none of the three when
\* the description names no class.
BareHitByDescription ==
    BareHitAdded =>
        /\ Grew("ground_balls") = (IF DescribedClass = "GB" THEN 1 ELSE 0)
        /\ Grew("line_drives") = (IF DescribedClass = "LD" THEN 1 ELSE 0)
        /\ Grew("fly_balls") = (IF DescribedClass = "FB" THEN 1 ELSE 0)

\* C13 witness: a single labelled "Single", with no pitch list, described as a
\* ground ball, was counted a ground ball
BareHitWitness ==
    /\ BareHitAdded
    /\ LastPitches = <<>>
    /\ LastResult = "Single"
    /\ LastDescription = "Singles on a Ground Ball to left."
    /\ Grew("ground_balls") = 1

\* a legacy at-bat carrying pitchCount, balls and strikes was added
LegacyAdded ==
    /\ Added
    /\ LastPitches = <<>>
    /\ last.at_bat.pitchCount # <<>> /\ last.at_bat.balls # <<>> /\ last.at_bat.strikes # <<>>

Max(a, b) == IF a >= b THEN a ELSE b

\* C14 as claimed: a legacy at-bat adds pitchCount - balls to swings, adds
\* 1 + max(0, strikes - 1) to contacts when it is a ball in play, adds no CSW
\* and leaves has_pitch_data as it was.
LegacyEstimate ==
    LegacyAdded =>
        /\ Grew("swings") = last.at_bat.pitchCount[1] - last.at_bat.balls[1]
        /\ is_ball_in_play(LastEvent) =>
              Grew("contacts") = 1 + Max(0, last.at_bat.strikes[1] - 1)
        /\ Grew("called_strikes_whiffs") = 0
        /\ acc.has_pitch_data = last.before.has_pitch_data

\* the alphabet of pitch call codes, as the claim lists it
CallAlphabet == {"B", "C", "S", "F", "T", "L", "M", "W", "I", "P", "V", "X", "D", "E",
                 "H", "O", "Q", "R"}

\* the number of pitches of the recorded call whose code is in the alphabet and in codes
Known(codes) ==
    Cardinality({i \in DOMAIN LastPitches : LastPitches[i].call \in CallAlphabet \cap codes})

\* C15: add_at_bat with a pitch list never raises, and each pitch counter grows
\* by the number of pitches whose code is in the alphabet (and in the counter's
\* code set): a pitch with an unknown or missing code changes none of them.
UnknownCodesIgnored ==
    (last.op = "add_at_bat" /\ LastPitches # <<>>) =>
        /\ ~last.raised
        /\ Grew("total_pitches") = Known(CallAlphabet)
        /\ Grew("swings") = Known(SWING_CODES)
        /\ Grew("contacts") = Known(CONTACT_CODES)
        /\ Grew("called_strikes_whiffs") = Known(CSW_CODES)

\* C15 witness: a list of one unknown and one missing code was added and the
\* four counters stayed as they were
UnknownCodesIgnoredWitness ==
    /\ Added
    /\ LastPitches = <<Call("Z"), Pitch(Absent, Absent, <<>>)>>
    /\ \A c \in {"total_pitches", "swings", "contacts", "called_strikes_whiffs"} : Grew(c) = 0
    /\ acc.has_pitch_data

\* C16 as claimed: get_stats never divides by zero, whatever non-negative
\* minima the caller passes.
GetStatsNeverDivides == out.op = "get_stats" => ~out.raised

\* C17 as claimed: add_at_bat never raises, whatever optional field of the
\* at-bat is missing or null.
AddAtBatNeverRaises == last.op = "add_at_bat" => ~last.raised

\* C19: whenever get_stats returns, its result holds the key BIP with the value
\* ground_balls + fly_balls + line_drives, below the minimum and at zero too.
BIPAlwaysEmitted ==
    (out.op = "get_stats" /\ ~out.raised) =>
        /\ "BIP" \in DOMAIN out.stats
        /\ out.stats["BIP"] = acc.ground_balls + acc.fly_balls + acc.line_drives

\* C19 witness: get_stats returned BIP = 0 for an accumulator below min_bip = 1
BIPAlwaysEmittedWitness ==
    /\ last.op = "add_at_bat"
    /\ out.op = "get_stats" /\ ~out.raised
    /\ out.min_bip = 1
    /\ DOMAIN out.stats = {"BIP"}
    /\ out.stats["BIP"] = 0

\* no pitch list has ever been fed to the accumulator
OnlyLegacyFed ==
    IF last.op = "none" THEN acc = NewStats
    ELSE last.before = NewStats /\ LastPitches = <<>>

DisciplineKeys == {"Swing%", "Contact%", "CSW%"}

\* C20: whenever get_stats returns, Swing% and CSW% are present exactly when
\* has_pitch_data holds and total_pitches >= min_pitches, and Contact% exactly
\* when swings > 0 besides; an accumulator fed only legacy at-bats gets none of
\* the three.
DisciplineGating ==
    (out.op = "get_stats" /\ ~out.raised) =>
        LET gate == acc.has_pitch_data /\ acc.total_pitches >= out.min_pitches
        IN /\ "Swing%" \in DOMAIN out.stats <=> gate
           /\ "CSW%" \in DOMAIN out.stats <=> gate
           /\ "Contact%" \in DOMAIN out.stats <=> (gate /\ acc.swings > 0)
           /\ OnlyLegacyFed => DisciplineKeys \cap DOMAIN out.stats = {}

\* C20 witness: a legacy at-bat with pitchCount 4 was fed to a new accumulator
\* and get_stats with min_pitches = 1 returned none of the three keys
DisciplineGatingWitness ==
    /\ Added
    /\ OnlyLegacyFed
    /\ acc.total_pitches = 4
    /\ out.op = "get_stats" /\ ~out.raised
    /\ out.min_pitches = 1
    /\ DisciplineKeys \cap DOMAIN out.stats = {}

\* the Swing% and CSW% of an accumulator under the per-game minima, when emitted
DisciplineRates(self) ==
    LET stats == get_stats(self, TRUE, 1, 1, 1)
    IN [k \in DOMAIN stats \cap {"Swing%", "CSW%"} |-> stats[k]]

\* C29 as claimed: total_pitches counts only the pitches of at-bats with
\* pitch-level data, so a legacy at-bat added to an accumulator whose
\* has_pitch_data is true changes neither its Swing% nor its CSW%.
LegacyKeepsDisciplineRates ==
    (Added /\ LastPitches = <<>> /\ last.before.has_pitch_data) =>
        /\ acc.total_pitches = last.before.total_pitches
        /\ DisciplineRates(acc) = DisciplineRates(last.before)

(***************************************************************************)
(* Properties of SpecPitch                                                  *)
(***************************************************************************)
\* the coordinate is known and lies outside the closed center band [100, 150]
OffCenter(coord_x) == coord_x # <<>> /\ (coord_x[1] < 100 \/ coord_x[1] > 150)

\* C22: determine_pull_from_coordinates returns unknown for a coordinate in the
\* closed band [100, 150], for a missing coordinate and for a missing or switch
\* hand; outside the band a right-handed batter's ball is pull exactly when the
\* coordinate is above 150 and a left-handed batter's exactly when it is below
\* 100; no coordinate is pull for both hands.
PullFromCoordinates ==
    out.op = "determine_pull" =>
        /\ ~OffCenter(out.coord_x) => out.is_pull = Null
        /\ out.batter_hand \in {Null, "", "S"} => out.is_pull = Null
        /\ (OffCenter(out.coord_x) /\ out.batter_hand = "R") =>
              out.is_pull = (IF out.coord_x[1] > 150 THEN "pull" ELSE "oppo")
        /\ (OffCenter(out.coord_x) /\ out.batter_hand = "L") =>
              out.is_pull = (IF out.coord_x[1] < 100 THEN "pull" ELSE "oppo")
        /\ ~ /\ determine_pull_from_coordinates(out.coord_x, "R") = "pull"
             /\ determine_pull_from_coordinates(out.coord_x, "L") = "pull"

\* C22 witness: the function was called with the right threshold for a
\* right-handed batter and returned unknown, although one unit above the
\* threshold is a pull for that batter and the opposite field for a left-handed one
PullFromCoordinatesWitness ==
    /\ out.op = "determine_pull"
    /\ out.coord_x = <<150>> /\ out.batter_hand = "R" /\ out.is_pull = Null
    /\ determine_pull_from_coordinates(<<151>>, "R") = "pull"
    /\ determine_pull_from_coordinates(<<151>>, "L") = "oppo"

\* the hit coordinate add_at_bat reads: the one of the last pitch
LastCoordX == IF LastPitches = <<>> THEN <<>> ELSE LastPitches[Len(LastPitches)].coordX

\* a direction counter of the root or of a split differs from its value before the call
DirectionChanged ==
    \E c \in DirectionCounters :
        \/ acc[c] # last.before[c]
        \/ acc.vs_left[1][c] # last.before.vs_left[1][c]
        \/ acc.vs_right[1][c] # last.before.vs_right[1][c]

\* C23: add_at_bat changes a direction counter only for an at-bat whose event
\* type is not empty and not a strikeout, walk, intentional walk or
\* hit-by-pitch, whose batter hand is L or R, and whose hit coordinate is known
\* and outside the center band.
DirectionOnlyOffCenter ==
    (Added /\ DirectionChanged) =>
        /\ LastEvent \notin {"", Null, "strikeout", "strikeout_double_play", "walk",
                             "intent_walk", "hit_by_pitch"}
        /\ last.batter_hand \in {"L", "R"}
        /\ OffCenter(LastCoordX)

\* C23 witness: a single of a right-handed batter at coordinate 151 entered the
\* pull denominator of the root and of the split it was forwarded to
DirectionOnlyOffCenterWitness ==
    /\ Added
    /\ LastEvent = "single" /\ last.batter_hand = "R" /\ LastCoordX = <<151>>
    /\ last.opponent_hand = "L"
    /\ Grew("bip_with_direction") = 1 /\ Grew("pull_hits") = 1
    /\ acc.vs_left[1].bip_with_direction = last.before.vs_left[1].bip_with_direction + 1

\* how much a counter of the left split grew in the recorded call
GrewLeft(c) == acc.vs_left[1][c] - last.before.vs_left[1][c]

AirCounters == {"air_balls_with_direction", "pull_air_balls"}

\* C24: an at-bat classified GB increments neither air_balls_with_direction nor
\* pull_air_balls, in the root or in a split, even when it increments
\* bip_with_direction; an at-bat that increments an air counter is classified FB
\* or LD or has the trajectory fly_ball, popup or line_drive.
GroundBallsNotAir ==
    Added =>
        /\ Grew("ground_balls") = 1 =>
              \A c \in AirCounters : Grew(c) = 0 /\ GrewLeft(c) = 0
        /\ (\E c \in AirCounters : Grew(c) > 0) =>
              \/ Grew("fly_balls") = 1
              \/ Grew("line_drives") = 1
              \/ /\ LastTrajectory \notin {Null, Absent}
                 /\ lower(LastTrajectory) \in {"fly_ball", "popup", "line_drive"}

\* C24 witness: a ground ball by its result label, pulled by a right-handed
\* batter, entered the Pull% denominator and numerator and left the air counters
GroundBallsNotAirWitness ==
    /\ Added
    /\ LastTrajectory = "bunt_grounder" /\ LastResult = "Groundout"
    /\ Grew("ground_balls") = 1
    /\ Grew("bip_with_direction") = 1 /\ Grew("pull_hits") = 1
    /\ Grew("air_balls_with_direction") = 0 /\ Grew("pull_air_balls") = 0
    /\ last.opponent_hand = "L" /\ GrewLeft("bip_with_direction") = 1
    /\ GrewLeft("air_balls_with_direction") = 0

\* the recorded call added an at-bat of one pitch that carries only a call code
\* of the alphabet
OneCodeAdded ==
    /\ Added
    /\ Len(LastPitches) = 1
    /\ LastPitches[1].call \in CallAlphabet
    /\ LastPitches = <<Call(LastPitches[1].call)>>

\* 1 when the code of the one pitch is in the set, else 0
CodeIn(codes) == IF LastPitches[1].call \in codes THEN 1 ELSE 0

PitchCounters == {"total_pitches", "swings", "contacts", "called_strikes_whiffs"}

\* C25: one pitch with a code of the alphabet adds 1 to total_pitches; 1 to
\* swings exactly for S,M,W,Q,F,T,L,O,R,X,D,E; 1 to contacts exactly for
\* F,T,L,O,R,X,D,E; 1 to called_strikes_whiffs exactly for C,S,M,W,Q; and
\* nothing to any other counter, so B,I,P,V,H add to total_pitches only.
CodeTaxonomy ==
    OneCodeAdded =>
        /\ Grew("total_pitches") = 1
        /\ Grew("swings") =
              CodeIn({"S", "M", "W", "Q", "F", "T", "L", "O", "R", "X", "D", "E"})
        /\ Grew("contacts") = CodeIn({"F", "T", "L", "O", "R", "X", "D", "E"})
        /\ Grew("called_strikes_whiffs") = CodeIn({"C", "S", "M", "W", "Q"})
        /\ \A c \in Counters \ PitchCounters : Grew(c) = 0
        /\ acc.has_pitch_data

\* C25 witness: a swinging pitchout (Q) counted as a pitch, a swing and a CSW
\* and not as a contact
CodeTaxonomyWitness ==
    /\ OneCodeAdded
    /\ LastPitches[1].call = "Q"
    /\ Grew("total_pitches") = 1 /\ Grew("swings") = 1
    /\ Grew("called_strikes_whiffs") = 1 /\ Grew("contacts") = 0

(***************************************************************************)
(* Properties of SpecMonth                                                  *)
(***************************************************************************)
\* the entry with its stats object left out
WithoutStats(log_entry) == [k \in DOMAIN log_entry \ {"stats"} |-> log_entry[k]]

\* the player ids of the aggregates of the month
PbpPlayers ==
    DOMAIN agg.batter_stats \cup DOMAIN agg.pitcher_stats
        \cup DOMAIN per_game.batter_per_game \cup DOMAIN per_game.pitcher_per_game

\* C30: calculate_for_month, with its merge and its injection, leaves the set of
\* player ids of the monthly record and each player's lists of game-log entries
\* as they were (the same logs, of the same length, each entry the same outside
\* its stats), and a player of the PBP data with no record gets none.
MonthKeepsPlayersAndEntries ==
    pc \in {"saved", "returned"} =>
        /\ DOMAIN players = DOMAIN inj.before
        /\ \A player_id \in PbpPlayers :
              player_id \notin DOMAIN inj.before => player_id \notin DOMAIN players
        /\ \A player_id \in DOMAIN inj.before :
              \A log_key \in GameLogKeys :
                  /\ log_key \in DOMAIN players[player_id]
                        <=> log_key \in DOMAIN inj.before[player_id]
                  /\ log_key \in DOMAIN inj.before[player_id] =>
                        /\ Len(players[player_id][log_key])
                              = Len(inj.before[player_id][log_key])
                        /\ \A i \in DOMAIN inj.before[player_id][log_key] :
                              WithoutStats(players[player_id][log_key][i])
                                 = WithoutStats(inj.before[player_id][log_key][i])

\* C30 witness: the file holds player 1 only; the month's games gave player 1
\* batting stats and per-game stats in a game-log entry, and gave player 2, who
\* pitched, no record; player 1's logs have the lengths they had
MonthKeepsWitness ==
    /\ pc = "saved"
    /\ DOMAIN inj.before = {"1"} /\ DOMAIN players = {"1"}
    /\ "2" \in DOMAIN agg.pitcher_stats
    /\ "2" \in DOMAIN per_game.pitcher_per_game
    /\ inj.updated_count >= 1 /\ inj.injected >= 1
    /\ "BIP" \in DOMAIN players["1"]["batting"] /\ "AVG" \in DOMAIN players["1"]["batting"]
    /\ "BIP" \in DOMAIN players["1"]["battingGameLog"][1]["stats"]
    /\ "BIP" \notin DOMAIN inj.before["1"]["battingGameLog"][1]["stats"]
    /\ Len(players["1"]["battingGameLog"]) = Len(inj.before["1"]["battingGameLog"])
    /\ Len(players["1"]["battingGameLog"]) > 1

(***************************************************************************)
(* Properties of SpecAgg: pitchers                                          *)
(***************************************************************************)
\* the accumulators of a dict of accumulators, with their splits
AccumulatorsIn(d) == UNION { Accumulators(d[k]) : k \in DOMAIN d }

\* the accumulators of a dict of dicts of accumulators, with their splits
AccumulatorsIn2(d) == UNION { AccumulatorsIn(d[k]) : k \in DOMAIN d }

\* every pitcher accumulator the aggregation has produced
PitcherAccumulators ==
    AccumulatorsIn(agg.pitcher_stats) \cup AccumulatorsIn2(agg.pitcher_stats_by_level)
        \cup AccumulatorsIn2(per_game.pitcher_per_game)

PullKeys == {"Pull%", "Pull-Air%"}

\* C21: every pitcher accumulator of the aggregation (overall, by level, per game,
\* and their splits) has its four direction counters at 0, and the RateStats
\* of a pitcher hold neither Pull% nor Pull-Air%.
PitchersHaveNoPull ==
    \A a \in PitcherAccumulators :
        /\ \A c \in DirectionCounters : a[c] = 0
        /\ \A m \in {1, DEFAULT_MIN_DIRECTION} :
              DOMAIN get_stats(a, FALSE, m, m, m) \cap PullKeys = {}

\* C21 witness: pitcher 2 faced a right-handed batter whose ground ball has a
\* known direction, counted for the batter and not for the pitcher
PitchersHaveNoPullWitness ==
    /\ pc = "done"
    /\ "1" \in DOMAIN agg.batter_stats
    /\ agg.batter_stats["1"].bip_with_direction >= 1
    /\ "Pull%" \in DOMAIN get_stats(agg.batter_stats["1"], TRUE, 1, 1, 1)
    /\ "2" \in DOMAIN agg.pitcher_stats
    /\ agg.pitcher_stats["2"].ground_balls >= 1
    /\ "2" \in DOMAIN per_game.pitcher_per_game
    /\ "2" \in DOMAIN agg.pitcher_stats_by_level

(***************************************************************************)
(* Properties of SpecInj                                                    *)
(***************************************************************************)
\* the per-game accumulators a log of a player is matched against
GameStatsOf(player_id, log_key) ==
    LET per_game_map == IF log_key = "battingGameLog" THEN per_game.batter_per_game
                        ELSE per_game.pitcher_per_game
    IN TouchDict(per_game_map, player_id)

\* the entry has a gameId (not 0) for which the player has a per-game accumulator
Matching(player_id, log_key, log_entry) ==
    /\ "gameId" \in DOMAIN log_entry
    /\ log_entry["gameId"] # 0
    /\ log_entry["gameId"] \in DOMAIN GameStatsOf(player_id, log_key)

\* the per-game RateStats of a matching entry
RateStatsOf(player_id, log_key, log_entry) ==
    get_stats(GameStatsOf(player_id, log_key)[log_entry["gameId"]],
              log_key = "battingGameLog", 1, 1, 1)

\* the entry after the injection differs from the one before only in stats, which
\* holds the per-game RateStats over the keys it held before
MergedInto(old, new, rate_stats) ==
    LET old_stats == IF "stats" \in DOMAIN old THEN old["stats"] ELSE EmptyDict
    IN /\ DOMAIN new = DOMAIN old \cup {"stats"}
       /\ \A k \in DOMAIN old \ {"stats"} : new[k] = old[k]
       /\ DOMAIN new["stats"] = DOMAIN old_stats \cup DOMAIN rate_stats
       /\ \A k \in DOMAIN rate_stats : new["stats"][k] = rate_stats[k]
       /\ \A k \in DOMAIN old_stats \ DOMAIN rate_stats : new["stats"][k] = old_stats[k]

\* C18: inject_per_game_stats leaves every player's other keys and every entry
\* with no per-game accumulator as they were, and in a matching entry changes
\* only stats, adding or overwriting exactly the keys of the per-game RateStats.
InjectFrame ==
    pc = "injected" =>
        /\ DOMAIN players = DOMAIN inj.before
        /\ \A player_id \in DOMAIN players :
              LET old == inj.before[player_id]
                  new == players[player_id]
              IN /\ DOMAIN new = DOMAIN old
                 /\ \A k \in DOMAIN old \ GameLogKeys : new[k] = old[k]
                 /\ \A log_key \in DOMAIN old \cap GameLogKeys :
                       /\ Len(new[log_key]) = Len(old[log_key])
                       /\ \A i \in DOMAIN old[log_key] :
                             IF Matching(player_id, log_key, old[log_key][i])
                             THEN MergedInto(old[log_key][i], new[log_key][i],
                                             RateStatsOf(player_id, log_key, old[log_key][i]))
                             ELSE new[log_key][i] = old[log_key][i]

\* C18 witness: player 1's entry of game 101 kept AB and H and gained GB%, the
\* entry of game 103 and the one with no gameId are as they were, and player 2's
\* pitching entry of game 102 had its BIP overwritten and kept IP
InjectFrameWitness ==
    /\ pc = "injected"
    /\ inj.injected >= 2
    /\ "1" \in DOMAIN players /\ "3" \in DOMAIN players
    /\ {"AB", "H", "BIP", "GB%"} \subseteq DOMAIN players["1"]["battingGameLog"][1]["stats"]
    /\ players["1"]["battingGameLog"][2] = inj.before["1"]["battingGameLog"][2]
    /\ players["1"]["battingGameLog"][3] = inj.before["1"]["battingGameLog"][3]
    /\ players["2"]["pitchingGameLog"][1]["stats"]["BIP"] # 9
    /\ players["2"]["pitchingGameLog"][1]["stats"]["IP"] = 6
    /\ players["3"] = inj.before["3"]

(***************************************************************************)
(* Properties of SpecAgg                                                    *)
(***************************************************************************)
\* the injective maps of 1..n onto itself
Perms(n) == {p \in [1..n -> 1..n] : \A i, j \in 1..n : p[i] = p[j] => i = j}

\* the game with its at-bats in every order
AtBatOrders(g) ==
    {[g EXCEPT !.atBats = [i \in 1..Len(g.atBats) |-> g.atBats[q[i]]]] :
        q \in Perms(Len(g.atBats))}

\* the lists of the same games in the same order, the at-bats of each in any order
RECURSIVE Reordered(_)
Reordered(gs) ==
    IF gs = <<>> THEN {<<>>}
    ELSE {<<g>> \o rest : g \in AtBatOrders(Head(gs)), rest \in Reordered(Tail(gs))}

\* every list made of the same games in any order, the at-bats of each game in any order
Shuffles(gs) ==
    UNION {Reordered([i \in 1..Len(gs) |-> gs[p[i]]]) : p \in Perms(Len(gs))}

\* C1: the overall, by-level and per-game accumulators of every batter and
\* pitcher are the same for every permutation of the games and of the at-bats
\* inside each game.
OrderIndependent ==
    pc = "done" =>
        \A h \in Shuffles(games) :
            /\ process_games_for_stats(h) = agg
            /\ process_games_per_game(h) = per_game

\* C1 witness: two different games were aggregated, and a batter whose last
\* at-bat of the list is a legacy record has pitch-level data from an earlier one
OrderIndependentWitness ==
    /\ pc = "done"
    /\ Len(games) = 2
    /\ games[1] # games[2]
    /\ games[1].atBats[1].pitches # <<>>
    /\ games[2].atBats = <<Matchup(LineOutLegacy, <<1>>, <<1>>, Absent, "L")>>
    /\ games[2].gamePk = <<102>>
    /\ agg.batter_stats["1"].has_pitch_data
    /\ ~per_game.batter_per_game["1"][102].has_pitch_data

\* the sum of a counter over the accumulators of a dict
RECURSIVE SumOver(_, _, _)
SumOver(d, ks, c) ==
    IF ks = {} THEN 0
    ELSE LET k == CHOOSE x \in ks : TRUE IN d[k][c] + SumOver(d, ks \ {k}, c)

\* the per-game accumulators of every player of `overall` sum to its counters
PerGameSums(by_game, overall) ==
    \A id \in DOMAIN overall : \A c \in Counters :
        SumOver(TouchDict(by_game, id), DOMAIN TouchDict(by_game, id), c) = overall[id][c]

\* C6 as claimed: for every player and raw counter, the per-game accumulators
\* sum to the overall accumulator.
PerGameSumsToOverall ==
    pc = "done" =>
        /\ PerGameSums(per_game.batter_per_game, agg.batter_stats)
        /\ PerGameSums(per_game.pitcher_per_game, agg.pitcher_stats)

HasGamePk(g) == IsSet(g.gamePk)

\* C6 amended: for every player and raw counter, the per-game accumulators sum
\* to the overall accumulator of the games that carry a gamePk (the overall
\* accumulator itself when every game does); the at-bats of a game without a
\* gamePk are in no game-keyed accumulator.
PerGameSumsToOverallWithPk ==
    pc = "done" =>
        LET ref == process_games_for_stats(SelectSeq(games, HasGamePk))
        IN /\ DOMAIN per_game.batter_per_game = DOMAIN ref.batter_stats
           /\ DOMAIN per_game.pitcher_per_game = DOMAIN ref.pitcher_stats
           /\ PerGameSums(per_game.batter_per_game, ref.batter_stats)
           /\ PerGameSums(per_game.pitcher_per_game, ref.pitcher_stats)
           /\ (\A i \in 1..Len(games) : HasGamePk(games[i])) =>
                 (ref.batter_stats = agg.batter_stats /\ ref.pitcher_stats = agg.pitcher_stats)

\* C6 witness: a game with a gamePk and a game without one were aggregated
PerGameSumsWitness ==
    /\ pc = "done"
    /\ Len(games) = 2
    /\ HasGamePk(games[1]) /\ ~HasGamePk(games[2])
    /\ "1" \in DOMAIN per_game.batter_per_game
    /\ "2" \in DOMAIN agg.batter_stats /\ "2" \notin DOMAIN per_game.batter_per_game

\* the levels of the games in which an at-bat names the player under `field`
LevelsOf(gs, field, id) ==
    {Get(gs[i].level, "MiLB") : i \in {j \in 1..Len(gs) :
        \E a \in 1..Len(gs[j].atBats) :
            /\ IsSet(gs[j].atBats[a][field])
            /\ ToString(gs[j].atBats[a][field][1]) = id}}

\* the by-level accumulators of every player sum to the overall ones, under the
\* levels of the player's games
LevelSums(by_level, overall, field) ==
    /\ DOMAIN by_level = DOMAIN overall
    /\ \A id \in DOMAIN overall :
          /\ DOMAIN by_level[id] = LevelsOf(games, field, id)
          /\ \A c \in Counters :
                SumOver(by_level[id], DOMAIN by_level[id], c) = overall[id][c]

\* C7: for every player and raw counter, the level-keyed accumulators (level
\* of the game record, "MiLB" when absent) sum to the overall accumulator.
LevelSumsToOverall ==
    pc \in {"stats", "done"} =>
        /\ LevelSums(agg.batter_stats_by_level, agg.batter_stats, "batterId")
        /\ LevelSums(agg.pitcher_stats_by_level, agg.pitcher_stats, "pitcherId")

\* C7 witness: a player has at-bats in a game with a level and in one without
LevelSumsWitness ==
    /\ pc = "stats"
    /\ "2" \in DOMAIN agg.pitcher_stats_by_level
    /\ DOMAIN agg.pitcher_stats_by_level["2"] = {"AA", "MiLB"}
    /\ agg.pitcher_stats_by_level["2"]["MiLB"].total_pitches > 0
    /\ agg.pitcher_stats["2"].total_pitches
         > agg.pitcher_stats_by_level["2"]["MiLB"].total_pitches


(***************************************************************************)
(* Properties of SpecAgg: shards                                            *)
(***************************************************************************)
\* the sum of two accumulators: counters added, has_pitch_data or-ed, splits summed
RECURSIVE SumAcc(_, _)
SumAcc(a, b) ==
    [c \in DOMAIN a |->
        IF c \in Counters THEN a[c] + b[c]
        ELSE IF c = "has_pitch_data" THEN a[c] \/ b[c]
        ELSE IF a[c] = <<>> THEN <<>>
        ELSE <<SumAcc(a[c][1], b[c][1])>>]

\* the sum of two dicts of accumulators, key by key
SumDict(d, e) ==
    [k \in DOMAIN d \cup DOMAIN e |->
        IF k \notin DOMAIN e THEN d[k]
        ELSE IF k \notin DOMAIN d THEN e[k]
        ELSE SumAcc(d[k], e[k])]

\* the sum of two dicts of dicts of accumulators
SumDict2(d, e) ==
    [k \in DOMAIN d \cup DOMAIN e |->
        IF k \notin DOMAIN e THEN d[k]
        ELSE IF k \notin DOMAIN d THEN e[k]
        ELSE SumDict(d[k], e[k])]

\* the games split after the first k
ShardA(k) == SubSeq(games, 1, k)
ShardB(k) == SubSeq(games, k + 1, Len(games))

\* C26: for every split of the games into a list A followed by a list B, the
\* overall, by-level and per-game accumulators of every batter and pitcher after
\* aggregating the whole list equal the sums of those obtained by aggregating A
\* and B separately (has_pitch_data or-ed), and so do their RateStats.
ShardsAdd ==
    pc = "done" =>
        \A k \in 0..Len(games) :
            LET a == process_games_for_stats(ShardA(k))
                b == process_games_for_stats(ShardB(k))
                ag == process_games_per_game(ShardA(k))
                bg == process_games_per_game(ShardB(k))
            IN /\ agg.batter_stats = SumDict(a.batter_stats, b.batter_stats)
               /\ agg.pitcher_stats = SumDict(a.pitcher_stats, b.pitcher_stats)
               /\ agg.batter_stats_by_level =
                     SumDict2(a.batter_stats_by_level, b.batter_stats_by_level)
               /\ agg.pitcher_stats_by_level =
                     SumDict2(a.pitcher_stats_by_level, b.pitcher_stats_by_level)
               /\ per_game.batter_per_game = SumDict2(ag.batter_per_game, bg.batter_per_game)
               /\ per_game.pitcher_per_game =
                     SumDict2(ag.pitcher_per_game, bg.pitcher_per_game)
               /\ \A id \in DOMAIN agg.batter_stats :
                     get_stats(agg.batter_stats[id], TRUE, 1, 1, 1) =
                        get_stats(SumDict(a.batter_stats, b.batter_stats)[id], TRUE, 1, 1, 1)

\* C26 witness: two games of the same game id and level in which player 1 bats,
\* the first with pitch-level data and the second without; each shard has an
\* accumulator of player 1 and the combined one holds the at-bats of both
ShardsAddWitness ==
    /\ pc = "done"
    /\ Len(games) = 2
    /\ games[1].gamePk = <<101>> /\ games[2].gamePk = <<101>>
    /\ "1" \in DOMAIN process_games_for_stats(ShardA(1)).batter_stats
    /\ "1" \in DOMAIN process_games_for_stats(ShardB(1)).batter_stats
    /\ process_games_for_stats(ShardA(1)).batter_stats["1"].has_pitch_data
    /\ ~process_games_for_stats(ShardB(1)).batter_stats["1"].has_pitch_data
    /\ agg.batter_stats["1"].has_pitch_data
    /\ agg.batter_stats["1"].total_pitches =
          process_games_for_stats(ShardA(1)).batter_stats["1"].total_pitches
          + process_games_for_stats(ShardB(1)).batter_stats["1"].total_pitches
    /\ agg.batter_stats["1"].total_pitches > 0
    /\ per_game.batter_per_game["1"][101].line_drives = 2

====
